---- MODULE Spec2Model ----
(***************************************************************************)
(* Model of the agentify endpoint analysis (ProjectAnalyzer, RESTAnalyzer, *)
(* NodeJSAnalyzer, OpenAPIAnalyzer) and of the generation pipeline         *)
(* (MCPGenerator, TemplateManager).                                        *)
(*                                                                         *)
(* JavaScript strings are modelled as sequences of one-character strings,  *)
(* so that split, replace, toLowerCase, includes and string concatenation  *)
(* are computed as the code computes them.                                 *)
(***************************************************************************)
EXTENDS Integers, Sequences, FiniteSets, TLC

\* ------------------------------------------------------------------------
\* Bounds of the model
\* ------------------------------------------------------------------------

\* Largest number of entries of projectInfo.endpoints handed to generate.
MaxEndpoints == 2

\* ------------------------------------------------------------------------
\* String primitives
\* ------------------------------------------------------------------------

LowerLetters ==
  << "a", "b", "c", "d", "e", "f", "g", "h", "i", "j", "k", "l", "m",
     "n", "o", "p", "q", "r", "s", "t", "u", "v", "w", "x", "y", "z" >>

UpperLetters ==
  << "A", "B", "C", "D", "E", "F", "G", "H", "I", "J", "K", "L", "M",
     "N", "O", "P", "Q", "R", "S", "T", "U", "V", "W", "X", "Y", "Z" >>

\* String.prototype.toUpperCase on one character.
UpperChar(c) ==
  IF \E i \in 1..26 : LowerLetters[i] = c
    THEN UpperLetters[CHOOSE i \in 1..26 : LowerLetters[i] = c]
    ELSE c

\* String.prototype.toLowerCase on one character.
LowerChar(c) ==
  IF \E i \in 1..26 : UpperLetters[i] = c
    THEN LowerLetters[CHOOSE i \in 1..26 : UpperLetters[i] = c]
    ELSE c

ToUpperCase(s) == [i \in 1..Len(s) |-> UpperChar(s[i])]

ToLowerCase(s) == [i \in 1..Len(s) |-> LowerChar(s[i])]

\* s.replace(/[...]/g, '') : drop every character of the class.
RECURSIVE RemoveChars(_, _)
RemoveChars(s, class) ==
  IF s = << >> THEN << >>
  ELSE IF Head(s) \in class THEN RemoveChars(Tail(s), class)
  ELSE << Head(s) >> \o RemoveChars(Tail(s), class)

\* s.split(sep) for a one-character separator: the pieces between
\* separators, empty pieces included.
RECURSIVE SplitAcc(_, _, _)
SplitAcc(s, sep, cur) ==
  IF s = << >> THEN << cur >>
  ELSE IF Head(s) = sep THEN << cur >> \o SplitAcc(Tail(s), sep, << >>)
  ELSE SplitAcc(Tail(s), sep, Append(cur, Head(s)))

Split(s, sep) == SplitAcc(s, sep, << >>)

\* Array.prototype.filter(part => part && part !== '').
RECURSIVE NonEmptyParts(_)
NonEmptyParts(parts) ==
  IF parts = << >> THEN << >>
  ELSE IF Head(parts) = << >> THEN NonEmptyParts(Tail(parts))
  ELSE << Head(parts) >> \o NonEmptyParts(Tail(parts))

\* Array.prototype.join(sep), sep a string.
RECURSIVE Join(_, _)
Join(parts, sep) ==
  IF parts = << >> THEN << >>
  ELSE IF Len(parts) = 1 THEN parts[1]
  ELSE parts[1] \o sep \o Join(Tail(parts), sep)

\* String.prototype.includes.
Includes(s, sub) ==
  \E i \in 0..(Len(s) - Len(sub)) :
    \A j \in 1..Len(sub) : s[i + j] = sub[j]

\* The characters removed by .replace(/[{}:]/g, '').
ParamChars == { "{", "}", ":" }

\* cleanPart.charAt(0).toUpperCase() + cleanPart.slice(1).toLowerCase()
Capitalize(s) ==
  [i \in 1..Len(s) |-> IF i = 1 THEN UpperChar(s[i]) ELSE LowerChar(s[i])]

\* ------------------------------------------------------------------------
\* Identifier derivation
\* ------------------------------------------------------------------------

\* `${endpoint.method}:${endpoint.path}`
EndpointKey(e) == e.method \o << ":" >> \o e.path

\* MCPGenerator.generateToolName: the stem of the tool and test files.
generateToolName(e) ==
  LET pathParts == NonEmptyParts(Split(e.path, "/"))
      cleanParts == [i \in 1..Len(pathParts) |->
                       Capitalize(RemoveChars(pathParts[i], ParamChars))]
  IN ToLowerCase(e.method) \o Join(cleanParts, << >>)

\* Handlebars helper 'toolName'.
toolName(method, path) ==
  LET pathParts == NonEmptyParts(Split(path, "/"))
      cleanParts == [i \in 1..Len(pathParts) |->
                       ToLowerCase(RemoveChars(pathParts[i], ParamChars))]
  IN ToLowerCase(method) \o << "_" >> \o Join(cleanParts, << "_" >>)

\* String.prototype.trim for the blank character.
RECURSIVE TrimLeft(_)
TrimLeft(s) ==
  IF s = << >> THEN << >>
  ELSE IF Head(s) = " " THEN TrimLeft(Tail(s))
  ELSE s

RECURSIVE TrimRight(_)
TrimRight(s) ==
  IF s = << >> THEN << >>
  ELSE IF s[Len(s)] = " " THEN TrimRight(SubSeq(s, 1, Len(s) - 1))
  ELSE s

Trim(s) == TrimRight(TrimLeft(s))

\* Array.prototype.filter(part => part && part.trim() !== '').
RECURSIVE NonBlankParts(_)
NonBlankParts(parts) ==
  IF parts = << >> THEN << >>
  ELSE IF Trim(Head(parts)) = << >> THEN NonBlankParts(Tail(parts))
  ELSE << Head(parts) >> \o NonBlankParts(Tail(parts))

UnknownTool == << "u", "n", "k", "n", "o", "w", "n", "T", "o", "o", "l" >>

\* Handlebars helper 'safeFileName': the export name and import path that
\* the templates emit.
safeFileName(method, path) ==
  IF method = << >> \/ path = << >> THEN UnknownTool
  ELSE
    LET pathParts == NonBlankParts(Split(path, "/"))
        cleanParts == NonEmptyParts(
                        [i \in 1..Len(pathParts) |->
                           Capitalize(Trim(RemoveChars(pathParts[i], ParamChars)))])
    IN ToLowerCase(method) \o Join(cleanParts, << >>)

\* ------------------------------------------------------------------------
\* Inputs of generate
\* ------------------------------------------------------------------------

GET == << "G", "E", "T" >>

POST == << "P", "O", "S", "T" >>

\* The endpoints a ProjectInfo handed to generate is built from.
EndpointPool ==
  { [method |-> GET,  path |-> << "/", "a", "/", "1" >>],
    [method |-> GET,  path |-> << "/", "a", "1" >>],
    [method |-> POST, path |-> << "/", "i", "/", "*" >>],
    [method |-> POST, path |-> << "/", "i", "/", "x" >>] }

\* The pair (method, path) is unique within one ProjectInfo.
UniquePairs(eps) ==
  \A i, j \in 1..Len(eps) :
    (eps[i].method = eps[j].method /\ eps[i].path = eps[j].path) => i = j

EndpointLists ==
  { eps \in UNION { [1..n -> EndpointPool] : n \in 0..MaxEndpoints } :
      UniquePairs(eps) }

\* MCPConfig.excludeEndpoints: absent, or an array of 'METHOD:/path' strings.
ExcludeOptions ==
  { [defined |-> FALSE, items |-> << >>],
    [defined |-> TRUE,  items |-> << >>],
    [defined |-> TRUE,  items |-> << POST \o << ":", "/", "i", "/", "*" >> >>] }

Configs ==
  [ outputFormat : { "typescript", "javascript" },
    includeTests : BOOLEAN,
    includeDocumentation : BOOLEAN,
    excludeEndpoints : ExcludeOptions ]

\* ------------------------------------------------------------------------
\* State
\* ------------------------------------------------------------------------

VARIABLES
  endpoints,   \* projectInfo.endpoints, as handed to generate
  config,      \* MCPGenerator.config
  dryRun,      \* the dryRun argument of the running generate call
  pc,          \* the statement of generate that runs next
  idx,         \* index of the for-of loop over endpoints that is running
  templates,   \* TemplateManager.templates: the names compiled and cached
  dirs,        \* directories below the output path that exist
  files,       \* files below the output path: path -> content written
  log,         \* console lines of the running generate call
  fsOps,       \* filesystem mutations made by the running generate call
  error,       \* the error the running generate call rejected with
  atStart,     \* directories and files as they were when the call started
  prev         \* dryRun and outcome of the previous call, the file paths it
               \* reported and the file paths it wrote

genVars ==
  << endpoints, config, dryRun, pc, idx, templates, dirs, files, log,
     fsOps, error, atStart, prev >>

VARIABLES
  project,       \* the source files of the project, in listing order
  specFile,      \* the swagger/openapi file of the project
  pathExists,    \* whether projectPath exists
  packageJson,   \* whether package.json exists at the project root
  requested,     \* the type argument of the latest analyze call
  mode,          \* the project type the running analyze call dispatches on
  again,         \* an earlier analyze call of this type has returned
  apc,           \* the statement of analyze that runs next
  scan,          \* the files the globs have enumerated, in scan order
  fileIdx,       \* index of the for-of loop over the files
  acc,           \* the endpoints array of scanForEndpoints / extractEndpoints
  fileEndpoints, \* the endpoints array of the latest per-file extraction
  result,        \* ProjectInfo.endpoints of the latest call that returned
  aerror,        \* the error the running analyze call rejected with
  calls,         \* every per-file extraction so far: arguments and result
  returned       \* per type, every ProjectInfo.endpoints returned so far

anaVars ==
  << project, specFile, pathExists, packageJson, requested, mode, again, apc, scan, fileIdx, acc, fileEndpoints,
     result, aerror, calls, returned >>

VARIABLES
  served,   \* the endpoints the generated server was rendered from
  spc,      \* the statement of the call-tool handler that runs next
  request,  \* params of the call-tool request being handled
  reply,    \* what the call-tool handler answered the latest request with
  http      \* the config the latest handler passed to axios

srvVars == << served, spc, request, reply, http >>

VARIABLES
  nMethod,  \* the method of the endpoint whose names are derived
  nPath,    \* the path of that endpoint
  derived   \* the names derived for it, once they are

nameVars == << nMethod, nPath, derived >>

VARIABLES
  overrides,  \* per template name, the state of templates/<name>.hbs
  caller,     \* per caller of getTemplate, the call it made last
  cached,     \* TemplateManager.templates: name -> the compiled template
              \* stored under it (0: the map has no such key)
  compiled,   \* the names Handlebars.compile was called for, in call order
  firstOk,    \* per name, the template the first call that returned got
  issued      \* the number of getTemplate calls made

tmVars == << overrides, caller, cached, compiled, firstOk, issued >>

auxVars == << srvVars, nameVars, tmVars >>

vars == << genVars, anaVars, auxVars >>

\* ------------------------------------------------------------------------
\* File names and directories of the generated tree
\* ------------------------------------------------------------------------

ExtTs == << ".", "t", "s" >>

ExtTestTs == << ".", "t", "e", "s", "t", ".", "t", "s" >>

IndexTs == << "i", "n", "d", "e", "x" >> \o ExtTs

SetupTs == << "s", "e", "t", "u", "p" >> \o ExtTs

PackageJson == << "p", "a", "c", "k", "a", "g", "e", ".", "j", "s", "o", "n" >>

TsconfigJson == << "t", "s", "c", "o", "n", "f", "i", "g", ".", "j", "s", "o", "n" >>

EnvExample == << ".", "e", "n", "v", ".", "e", "x", "a", "m", "p", "l", "e" >>

ReadmeMd == << "R", "E", "A", "D", "M", "E", ".", "m", "d" >>

ApiMd == << "A", "P", "I", ".", "m", "d" >>

\* path.join(options.outputPath, dir, name), relative to the output path.
FilePath(dir, name) == [dir |-> dir, name |-> name]

\* The directory and every directory above it up to the output path: what
\* fs.ensureDir creates when missing.
WithParents(dir) ==
  CASE dir = "src/tools"   -> { ".", "src", "src/tools" }
    [] dir = "src/types"   -> { ".", "src", "src/types" }
    [] dir = "src/utils"   -> { ".", "src", "src/utils" }
    [] dir = "tests/tools" -> { ".", "tests", "tests/tools" }
    [] dir = "."           -> { "." }
    [] OTHER               -> { ".", dir }

\* The dirs array of createDirectoryStructure.
StructureDirs(cfg) ==
  << "src", "src/tools", "src/types", "src/utils", "dist" >>
    \o (IF cfg.includeTests THEN << "tests", "tests/tools" >> ELSE << >>)
    \o (IF cfg.includeDocumentation THEN << "docs" >> ELSE << >>)

\* ------------------------------------------------------------------------
\* Templates
\* ------------------------------------------------------------------------

\* The keys of the templates object of getBuiltinTemplate.
BuiltinTemplates ==
  { "server.ts", "package.json", "tsconfig.json", "tool.ts", "tools-index.ts",
    "test-setup.ts", "tool-test.ts", "docs.md", "README.md" }

NoError == [kind |-> "none", what |-> "none"]

\* TemplateManager.getTemplate(name) with the cache `cache`, when the
\* override file templates/<name>.hbs is in state `hbs` ("absent", or
\* "unreadable": it exists and fs.readFile rejects). The result is the error
\* thrown, or NoError when a compiled template is returned.
getTemplate(name, cache, hbs) ==
  IF name \in cache THEN NoError
  ELSE IF hbs = "unreadable" THEN [kind |-> "read", what |-> name]
  ELSE IF name \notin BuiltinTemplates
    THEN [kind |-> "Template not found", what |-> name]
  ELSE NoError

\* What a template emits for one endpoint. A field the template does not
\* emit is the empty string.
Fragment(method, path, name, ident) ==
  [method |-> method, path |-> path, name |-> name, ident |-> ident]

\* The built-in templates, rendered: the template's name and, in order, the
\* per-endpoint fragments of its {{#each endpoints}} blocks (or of its one
\* endpoint).
RenderEach(tpl, eps) ==
  [ template |-> tpl,
    entries |->
      [i \in 1..Len(eps) |->
         CASE tpl \in { "server.ts", "README.md" } ->
                Fragment(eps[i].method, eps[i].path,
                         toolName(eps[i].method, eps[i].path), << >>)
           [] tpl = "docs.md" ->
                Fragment(eps[i].method, eps[i].path, << >>, << >>)
           [] tpl = "tools-index.ts" ->
                Fragment(<< >>, << >>, << >>,
                         safeFileName(eps[i].method, eps[i].path))
           [] tpl \in { "tool.ts", "tool-test.ts" } ->
                Fragment(eps[i].method, eps[i].path,
                         toolName(eps[i].method, eps[i].path),
                         safeFileName(eps[i].method, eps[i].path))
           [] OTHER -> Fragment(<< >>, << >>, << >>, << >>)] ]

\* A template that is given no endpoint (package.json, tsconfig.json,
\* test-setup.ts), and the string built by generateEnvFile.
RenderPlain(tpl) == [template |-> tpl, entries |-> << >>]

\* ------------------------------------------------------------------------
\* MCPGenerator
\* ------------------------------------------------------------------------

\* Array.prototype.includes.
ArrayIncludes(arr, x) == \E i \in 1..Len(arr) : arr[i] = x

\* String.prototype.startsWith.
StartsWith(s, prefix) ==
  Len(prefix) <= Len(s) /\ SubSeq(s, 1, Len(prefix)) = prefix

\* Kept, were an entry ending in '*' matched as a wildcard.
KeptByWildcard(e, cfg) ==
  ~ (cfg.excludeEndpoints.defined
       /\ \E i \in 1..Len(cfg.excludeEndpoints.items) :
            LET item == cfg.excludeEndpoints.items[i] IN
              \/ item = EndpointKey(e)
              \/ /\ item # << >>
                 /\ item[Len(item)] = "*"
                 /\ StartsWith(EndpointKey(e), SubSeq(item, 1, Len(item) - 1)))

\* The filter predicate of generateToolFiles:
\* !this.config.excludeEndpoints?.includes(endpointKey)
Kept(e, cfg) ==
  ~ (cfg.excludeEndpoints.defined
       /\ ArrayIncludes(cfg.excludeEndpoints.items, EndpointKey(e)))

RECURSIVE FilterKept(_, _)
FilterKept(eps, cfg) ==
  IF eps = << >> THEN << >>
  ELSE IF Kept(Head(eps), cfg)
    THEN << Head(eps) >> \o FilterKept(Tail(eps), cfg)
  ELSE FilterKept(Tail(eps), cfg)

\* const filteredEndpoints = projectInfo.endpoints.filter(...)
filteredEndpoints(eps, cfg) == FilterKept(eps, cfg)

\* The directories fs.ensureDir(dir) walks, outermost first.
ParentChain(dir) ==
  CASE dir = "src/tools"   -> << ".", "src", "src/tools" >>
    [] dir = "src/types"   -> << ".", "src", "src/types" >>
    [] dir = "src/utils"   -> << ".", "src", "src/utils" >>
    [] dir = "tests/tools" -> << ".", "tests", "tests/tools" >>
    [] dir = "."           -> << "." >>
    [] OTHER               -> << ".", dir >>

\* fs.ensureDir(dir): the directories it has to create, outermost first.
RECURSIVE MissingOf(_, _)
MissingOf(chain, existing) ==
  IF chain = << >> THEN << >>
  ELSE IF Head(chain) \in existing THEN MissingOf(Tail(chain), existing)
  ELSE << Head(chain) >> \o MissingOf(Tail(chain), existing)

ensureDir(dir, existing) == MissingOf(ParentChain(dir), existing)

Range(seq) == { seq[i] : i \in 1..Len(seq) }

\* The for loop of createDirectoryStructure over the first k directories of
\* ds, run without dryRun: the directories created, in creation order.
RECURSIVE EnsureAll(_, _, _)
EnsureAll(ds, k, existing) ==
  IF k = 0 \/ ds = << >> THEN << >>
  ELSE LET made == ensureDir(Head(ds), existing)
       IN made \o EnsureAll(Tail(ds), k - 1, existing \cup Range(made))

MkdirOp(d) ==
  [op |-> "mkdir", dir |-> d, name |-> << >>, content |-> RenderPlain("none")]

WriteOp(path, content) ==
  [op |-> "writeFile", dir |-> path.dir, name |-> path.name, content |-> content]

LogLine(kind, dir, name) == [kind |-> kind, dir |-> dir, name |-> name]

\* OnlyReports, were the dryRun option not consulted.
NeverOnlyReports(dry) == FALSE

\* if (options.dryRun) of writeFile and of createDirectoryStructure: whether
\* the filesystem call is replaced by a console line.
OnlyReports(dry) == dry

\* AfterAwait, were the rejection caught and the run continued.
AfterAwaitCaught(err, next) == next

\* An await of generate on a promise that settled with err: the statement
\* that runs next. generate has no try/catch, so a rejection ends the call.
AfterAwait(err, next) == IF err = NoError THEN next ELSE "rejected"

\* AfterPackage, were tsconfig.json written for every output format.
AfterPackageAlwaysTsconfig(cfg) == "tsconfig"

\* The statement that follows generateServerFiles' package.json.
AfterPackage(cfg) ==
  IF cfg.outputFormat = "typescript" THEN "tsconfig" ELSE "tools"

\* The statement that follows generateTestFiles (or its skipping).
AfterTests(cfg) == IF cfg.includeDocumentation THEN "docs" ELSE "done"

\* The statement that follows generateConfigFiles.
AfterConfigFiles(cfg) ==
  IF cfg.includeTests THEN "testSetup" ELSE AfterTests(cfg)

\* The statement that follows the test of endpoint number i (i = 0: the
\* test setup file).
AfterTest(i, eps, cfg) ==
  IF i < Len(eps) THEN "toolTests" ELSE AfterTests(cfg)

Frame ==
  UNCHANGED << endpoints, config, dryRun, atStart, prev, anaVars, auxVars >>

\* createDirectoryStructure(options)
CreateDirectoryStructure ==
  /\ pc = "dirs"
  /\ LET ds == StructureDirs(config) IN
       IF OnlyReports(dryRun)
         THEN /\ log' = log \o [i \in 1..Len(ds) |->
                                  LogLine("Would create directory", ds[i], << >>)]
              /\ pc' = "server"
              /\ UNCHANGED << dirs, fsOps, error >>
         ELSE \E k \in 0..Len(ds) :
                LET made == EnsureAll(ds, k, dirs)
                    err == IF k = Len(ds) THEN NoError
                           ELSE [kind |-> "mkdir", what |-> ds[k + 1]]
                IN /\ dirs' = dirs \cup Range(made)
                   /\ fsOps' = fsOps \o [i \in 1..Len(made) |-> MkdirOp(made[i])]
                   /\ error' = err
                   /\ pc' = AfterAwait(err, "server")
                   /\ UNCHANGED log
  /\ UNCHANGED << idx, templates, files >>
  /\ Frame

\* MCPGenerator.writeFile(filePath, content, options), where io tells whether
\* fs.writeFile succeeds.
writeFile(path, content, io) ==
  IF OnlyReports(dryRun)
    THEN /\ log' = Append(log, LogLine("Would create file", path.dir, path.name))
         /\ error' = NoError
         /\ UNCHANGED << dirs, files, fsOps >>
    ELSE LET made == ensureDir(path.dir, dirs) IN
         /\ dirs' = dirs \cup Range(made)
         /\ IF io = "ok"
              THEN /\ files' = [p \in DOMAIN files \cup { path } |->
                                  IF p = path THEN content ELSE files[p]]
                   /\ fsOps' = fsOps \o [i \in 1..Len(made) |-> MkdirOp(made[i])]
                                     \o << WriteOp(path, content) >>
                   /\ log' = Append(log, LogLine("Created", path.dir, path.name))
                   /\ error' = NoError
              ELSE /\ fsOps' = fsOps \o [i \in 1..Len(made) |-> MkdirOp(made[i])]
                   /\ error' = [kind |-> "write", what |-> path.name]
                   /\ UNCHANGED << files, log >>

\* One "getTemplate, render, writeFile" statement group of generate.
Emit(tpl, path, content, next, nextIdx) ==
  \E hbs \in { "absent", "unreadable" }, io \in { "ok", "fails" } :
    LET err == getTemplate(tpl, templates, hbs) IN
      IF err # NoError
        THEN /\ error' = err
             /\ pc' = AfterAwait(err, next)
             /\ UNCHANGED << idx, templates, dirs, files, log, fsOps >>
        ELSE /\ templates' = templates \cup { tpl }
             /\ writeFile(path, content, io)
             /\ pc' = AfterAwait(error', next)
             /\ idx' = IF error' = NoError THEN nextIdx ELSE idx

\* generateServerFiles: src/index.ts
WriteServer ==
  /\ pc = "server"
  /\ Emit("server.ts", FilePath("src", IndexTs),
          RenderEach("server.ts", endpoints), "package", idx)
  /\ Frame

\* generateServerFiles: package.json
WritePackage ==
  /\ pc = "package"
  /\ Emit("package.json", FilePath(".", PackageJson),
          RenderPlain("package.json"), AfterPackage(config), 1)
  /\ Frame

\* generateServerFiles: tsconfig.json
WriteTsconfig ==
  /\ pc = "tsconfig"
  /\ Emit("tsconfig.json", FilePath(".", TsconfigJson),
          RenderPlain("tsconfig.json"), "tools", 1)
  /\ Frame

\* generateToolFiles: one iteration of the loop over filteredEndpoints
WriteTool ==
  /\ pc = "tools"
  /\ idx <= Len(filteredEndpoints(endpoints, config))
  /\ LET e == filteredEndpoints(endpoints, config)[idx] IN
       Emit("tool.ts", FilePath("src/tools", generateToolName(e) \o ExtTs),
            RenderEach("tool.ts", << e >>), "tools", idx + 1)
  /\ Frame

\* generateToolFiles: src/tools/index.ts, after the loop
WriteToolsIndex ==
  /\ pc = "tools"
  /\ idx > Len(filteredEndpoints(endpoints, config))
  /\ Emit("tools-index.ts", FilePath("src/tools", IndexTs),
          RenderEach("tools-index.ts", filteredEndpoints(endpoints, config)),
          "env", idx)
  /\ Frame

\* generateConfigFiles: .env.example, built by generateEnvFile
WriteEnv ==
  /\ pc = "env"
  /\ \E io \in { "ok", "fails" } :
       /\ writeFile(FilePath(".", EnvExample), RenderPlain(".env.example"), io)
       /\ pc' = AfterAwait(error', "readme")
  /\ UNCHANGED << idx, templates >>
  /\ Frame

\* generateConfigFiles: README.md
WriteReadme ==
  /\ pc = "readme"
  /\ Emit("README.md", FilePath(".", ReadmeMd),
          RenderEach("README.md", endpoints), AfterConfigFiles(config), idx)
  /\ Frame

\* generateTestFiles: tests/setup.ts
WriteTestSetup ==
  /\ pc = "testSetup"
  /\ Emit("test-setup.ts", FilePath("tests", SetupTs),
          RenderPlain("test-setup.ts"), AfterTest(0, endpoints, config), 1)
  /\ Frame

\* generateTestFiles: one iteration of the loop over projectInfo.endpoints
WriteToolTest ==
  /\ pc = "toolTests"
  /\ idx <= Len(endpoints)
  /\ LET e == endpoints[idx] IN
       Emit("tool-test.ts",
            FilePath("tests/tools", generateToolName(e) \o ExtTestTs),
            RenderEach("tool-test.ts", << e >>),
            AfterTest(idx, endpoints, config), idx + 1)
  /\ Frame

\* generateDocumentation: docs/API.md
WriteDocs ==
  /\ pc = "docs"
  /\ Emit("docs.md", FilePath("docs", ApiMd),
          RenderEach("docs.md", endpoints), "done", idx)
  /\ Frame

\* The writeFile operations among ops, in order.
RECURSIVE WritesOf(_)
WritesOf(ops) ==
  IF ops = << >> THEN << >>
  ELSE IF Head(ops).op = "writeFile"
    THEN << Head(ops) >> \o WritesOf(Tail(ops))
  ELSE WritesOf(Tail(ops))

\* The paths of the file lines of a console log, in order.
RECURSIVE FileLines(_)
FileLines(lines) ==
  IF lines = << >> THEN << >>
  ELSE IF Head(lines).kind \in { "Would create file", "Created" }
    THEN << FilePath(Head(lines).dir, Head(lines).name) >> \o FileLines(Tail(lines))
  ELSE FileLines(Tail(lines))

PathsWritten(ops) ==
  LET writes == WritesOf(ops)
  IN [i \in 1..Len(writes) |-> FilePath(writes[i].dir, writes[i].name)]

NoPrev == [dryRun |-> FALSE, pc |-> "none", lines |-> << >>, written |-> << >>]

\* A further generate call on the same MCPGenerator, with the same
\* projectInfo and output path, once the previous call has resolved (the
\* command-line caller exits the process when generate rejects).
Generate ==
  /\ pc = "done"
  /\ \E d \in BOOLEAN : dryRun' = d
  /\ prev' = [dryRun |-> dryRun, pc |-> pc, lines |-> FileLines(log),
               written |-> PathsWritten(fsOps)]
  /\ atStart' = [dirs |-> dirs, files |-> files]
  /\ pc' = "dirs"
  /\ idx' = 1
  /\ log' = << >>
  /\ fsOps' = << >>
  /\ error' = NoError
  /\ UNCHANGED << endpoints, config, templates, dirs, files, anaVars,
                  auxVars >>

NoFiles == [p \in { } |-> RenderPlain("none")]

NoRequest == [name |-> << >>, arguments |-> << >>]

NoReply == [kind |-> "none", code |-> "none"]

NoHttp == [method |-> << >>, url |-> << >>, data |-> << >>, params |-> { }]

\* No generated server runs.
ServerIdle ==
  /\ served = << >>
  /\ spc = "idle"
  /\ request = NoRequest
  /\ reply = NoReply
  /\ http = NoHttp

\* No name is being derived.
NamesIdle ==
  /\ nMethod = << >>
  /\ nPath = << >>
  /\ derived = << >>

\* The names getTemplate is called with: two keys of the built-in
\* registry and a name that is not one.
TemplateNames == { "tool.ts", "server.ts", "nope" }

\* The callers whose getTemplate calls may overlap.
Callers == { 1, 2 }

NoCall ==
  [pc |-> "idle", name |-> "none", late |-> FALSE, consulted |-> FALSE,
   got |-> 0]

\* No caller has called getTemplate.
ManagerIdle ==
  /\ overrides = [n \in TemplateNames |-> "absent"]
  /\ caller = [p \in Callers |-> NoCall]
  /\ cached = [n \in TemplateNames |-> 0]
  /\ compiled = << >>
  /\ firstOk = [n \in TemplateNames |-> 0]
  /\ issued = 0

\* Neither a generated server, a name derivation nor a schedule of
\* getTemplate calls runs.
AuxIdle == ServerIdle /\ NamesIdle /\ ManagerIdle

\* No analyze call has been made.
AnalyzerIdle ==
  /\ project = << >>
  /\ specFile = [name |-> << >>, text |-> << >>]
  /\ pathExists = TRUE
  /\ packageJson = FALSE
  /\ requested = "none"
  /\ mode = "none"
  /\ again = FALSE
  /\ apc = "idle"
  /\ scan = << >>
  /\ fileIdx = 1
  /\ acc = << >>
  /\ fileEndpoints = << >>
  /\ result = << >>
  /\ aerror = "none"
  /\ calls = { }
  /\ returned = [m \in { "openapi", "nodejs", "rest-api" } |-> { }]

GenInit ==
  /\ AnalyzerIdle
  /\ AuxIdle
  /\ endpoints \in EndpointLists
  /\ config \in Configs
  /\ dryRun \in BOOLEAN
  /\ pc = "dirs"
  /\ idx = 1
  /\ templates = { }
  /\ dirs = { }
  /\ files = NoFiles
  /\ log = << >>
  /\ fsOps = << >>
  /\ error = NoError
  /\ atStart = [dirs |-> { }, files |-> NoFiles]
  /\ prev = NoPrev

GenNext ==
  \/ CreateDirectoryStructure
  \/ WriteServer
  \/ WritePackage
  \/ WriteTsconfig
  \/ WriteTool
  \/ WriteToolsIndex
  \/ WriteEnv
  \/ WriteReadme
  \/ WriteTestSetup
  \/ WriteToolTest
  \/ WriteDocs
  \/ Generate

SpecGen == GenInit /\ [][GenNext]_vars

\* ------------------------------------------------------------------------
\* Properties of the generation pipeline (specification SpecGen)
\* ------------------------------------------------------------------------

\* The 'METHOD:path' key of e is string-equal to an entry of excludeEndpoints.
KeyListed(e) ==
  /\ config.excludeEndpoints.defined
  /\ \E j \in 1..Len(config.excludeEndpoints.items) :
       config.excludeEndpoints.items[j] = e.method \o << ":" >> \o e.path

\* The rendered content shows endpoint e: by its method and path, or, in the
\* tools index (which emits identifiers only), by its export identifier.
Shows(content, e) ==
  \E k \in 1..Len(content.entries) :
    \/ /\ content.entries[k].method = e.method
       /\ content.entries[k].path = e.path
    \/ /\ content.template = "tools-index.ts"
       /\ content.entries[k].ident = safeFileName(e.method, e.path)

\* C3 (as claimed): an endpoint whose exact 'METHOD:path' key is listed in
\* excludeEndpoints is shown by no file the run has written.
C3_ExcludedInNoFile ==
  \A i \in 1..Len(endpoints) :
    KeyListed(endpoints[i]) =>
      \A k \in 1..Len(fsOps) :
        fsOps[k].op = "writeFile" => ~ Shows(fsOps[k].content, endpoints[i])

\* The statements of generate that follow generateToolFiles.
AfterToolFiles == { "env", "readme", "testSetup", "toolTests", "docs", "done" }

\* The run has written (or, in a dry run, reported) the tool file of e.
ToolFileEmitted(e) ==
  LET path == FilePath("src/tools", generateToolName(e) \o ExtTs) IN
    IF dryRun
      THEN \E k \in 1..Len(log) :
             /\ log[k].kind = "Would create file"
             /\ FilePath(log[k].dir, log[k].name) = path
      ELSE \E k \in 1..Len(fsOps) :
             /\ fsOps[k].op = "writeFile"
             /\ FilePath(fsOps[k].dir, fsOps[k].name) = path
             /\ fsOps[k].content.template = "tool.ts"
             /\ fsOps[k].content.entries[1].method = e.method
             /\ fsOps[k].content.entries[1].path = e.path

C5_NoToolFileOverwritten ==
  \A k, l \in 1..Len(fsOps) :
    (/\ k < l
     /\ fsOps[k].op = "writeFile"
     /\ fsOps[l].op = "writeFile"
     /\ fsOps[k].dir = "src/tools"
     /\ fsOps[l].dir = "src/tools")
      => fsOps[k].name # fsOps[l].name

\* C6: a dry run leaves the directories and files as they were when it
\* started, and the file paths a dry run reports are, in order, the file
\* paths a run without dryRun on the same projectInfo and config writes.
C6_DryRunFrame ==
  /\ dryRun => (dirs = atStart.dirs /\ files = atStart.files /\ fsOps = << >>)
  /\ (pc = "done" /\ prev.pc = "done" /\ dryRun /\ ~ prev.dryRun)
       => FileLines(log) = prev.written
  /\ (pc = "done" /\ prev.pc = "done" /\ ~ dryRun /\ prev.dryRun)
       => PathsWritten(fsOps) = prev.lines

\* C6 witness: a completed dry run that follows a completed writing run
\* which wrote tool files.
C6_Witness ==
  /\ pc = "done" /\ dryRun
  /\ prev.pc = "done" /\ ~ prev.dryRun
  /\ Len(endpoints) = 2
  /\ Len(FileLines(log)) >= 8
  /\ files # NoFiles

\* The file paths of one run in the order of generate's statements, for the
\* configuration cfg and the endpoint list eps.
ExpectedFiles(cfg, eps) ==
  LET survivors == SelectSeq(eps, LAMBDA e :
                     ~ (cfg.excludeEndpoints.defined
                          /\ \E j \in 1..Len(cfg.excludeEndpoints.items) :
                               cfg.excludeEndpoints.items[j]
                                 = e.method \o << ":" >> \o e.path))
  IN << FilePath("src", IndexTs), FilePath(".", PackageJson) >>
       \o (IF cfg.outputFormat = "typescript"
             THEN << FilePath(".", TsconfigJson) >> ELSE << >>)
       \o [i \in 1..Len(survivors) |->
             FilePath("src/tools", generateToolName(survivors[i]) \o ExtTs)]
       \o << FilePath("src/tools", IndexTs), FilePath(".", EnvExample),
             FilePath(".", ReadmeMd) >>
       \o (IF cfg.includeTests
             THEN << FilePath("tests", SetupTs) >>
                    \o [i \in 1..Len(eps) |->
                          FilePath("tests/tools",
                                   generateToolName(eps[i]) \o ExtTestTs)]
             ELSE << >>)
       \o (IF cfg.includeDocumentation
             THEN << FilePath("docs", ApiMd) >> ELSE << >>)

IsPrefix(a, b) == Len(a) <= Len(b) /\ SubSeq(b, 1, Len(a)) = a

\* C7: every directory is created (or reported) before the first file, and
\* the files are written (or reported) in the order src/index.ts,
\* package.json, tsconfig.json iff typescript, the tool file of each
\* surviving endpoint in list order, src/tools/index.ts, .env.example,
\* README.md, then iff includeTests tests/setup.ts and the test of each
\* endpoint in list order, then iff includeDocumentation docs/API.md.
C7_WriteOrder ==
  /\ \A k, l \in 1..Len(fsOps) :
       (fsOps[k].op = "writeFile" /\ fsOps[l].op = "mkdir") => l < k
  /\ \A k, l \in 1..Len(log) :
       (log[k].kind = "Would create file"
          /\ log[l].kind = "Would create directory") => l < k
  /\ LET lines == FileLines(log)
         expected == ExpectedFiles(config, endpoints)
     IN /\ IsPrefix(lines, expected)
        /\ pc = "done" => lines = expected
        /\ ~ dryRun => PathsWritten(fsOps) = lines

\* C7 witness: a completed writing run with tests and documentation, for
\* javascript output, with one endpoint excluded.
C7_Witness ==
  /\ pc = "done" /\ ~ dryRun
  /\ config.includeTests /\ config.includeDocumentation
  /\ config.outputFormat = "javascript"
  /\ Len(endpoints) = 2
  /\ \E i \in 1..2 : KeyListed(endpoints[i])
  /\ Len(FileLines(log)) = 10

\* C8: when a template lookup or a file write fails, generate rejects with
\* that error and the failing step leaves every file written before in
\* place; once rejected, the run writes no file and creates no directory.
C8_FailureAborts ==
  [][ /\ error' # NoError => pc' = "rejected"
      /\ (error = NoError /\ error' # NoError) =>
           (/\ error'.kind \in { "read", "Template not found", "write", "mkdir" }
            /\ files' = files
            /\ log' = log)
      /\ pc = "rejected" =>
           (files' = files /\ dirs' = dirs /\ log' = log /\ pc' = "rejected")
    ]_vars

\* C8 witness: a run rejected by a failed file write after it had written
\* files, and those files still exist.
C8_Witness ==
  /\ pc = "rejected"
  /\ error.kind = "write"
  /\ Len(WritesOf(fsOps)) >= 3
  /\ \A k \in 1..Len(fsOps) :
       fsOps[k].op = "writeFile" =>
         FilePath(fsOps[k].dir, fsOps[k].name) \in DOMAIN files

\* C9 (as claimed): after a completed writing run, for every endpoint that
\* has a tool file, the name in src/tools/<stem>.ts is the toolName of the
\* endpoint's (method, path), and so is its name in the list-tools array of
\* src/index.ts and the name asserted in its test.
C9_NameRoundTrip ==
  (pc = "done" /\ ~ dryRun) =>
    \A i \in 1..Len(endpoints) :
      LET e == endpoints[i]
          toolPath == FilePath("src/tools", generateToolName(e) \o ExtTs)
          testPath == FilePath("tests/tools", generateToolName(e) \o ExtTestTs)
      IN ~ KeyListed(e) =>
           /\ toolPath \in DOMAIN files
           /\ files[toolPath].entries[1].name = toolName(e.method, e.path)
           /\ files[FilePath("src", IndexTs)].entries[i].name
                = toolName(e.method, e.path)
           /\ config.includeTests =>
                files[testPath].entries[1].name = toolName(e.method, e.path)

\* ------------------------------------------------------------------------
\* Endpoint analysis: source text
\* ------------------------------------------------------------------------

PUT == << "P", "U", "T" >>

PATCH == << "P", "A", "T", "C", "H" >>

DELETE == << "D", "E", "L", "E", "T", "E" >>

OPTIONS == << "O", "P", "T", "I", "O", "N", "S" >>

HEAD == << "H", "E", "A", "D" >>

\* const methods = ['GET', 'POST', 'PUT', 'PATCH', 'DELETE', 'OPTIONS', 'HEAD']
methods == << GET, POST, PUT, PATCH, DELETE, OPTIONS, HEAD >>

\* const httpMethods = ['get', 'post', 'put', 'patch', 'delete', 'options',
\* 'head'], also the verb alternatives of the route regular expressions.
httpMethods == [i \in 1..Len(methods) |-> ToLowerCase(methods[i])]

\* The receiver names the route regular expressions spell out.
App == << "a", "p", "p" >>

Router == << "r", "o", "u", "t", "e", "r" >>

Server == << "s", "e", "r", "v", "e", "r" >>

Fastify == << "f", "a", "s", "t", "i", "f", "y" >>

Digits == { "0", "1", "2", "3", "4", "5", "6", "7", "8", "9" }

\* The concatenation of the sequences of a sequence.
RECURSIVE Concat(_)
Concat(seqs) ==
  IF seqs = << >> THEN << >> ELSE Head(seqs) \o Concat(Tail(seqs))

\* A source file's text is a sequence of statements in textual order.  A
\* statement is one of
\*   call       recv.verb('path', ...)
\*   route      recv.route('path')
\*   decorator  @verb('path')
\*   hapi       server.route({ method: 'verb', path: 'path' ... })
\*   url        url: 'path'
\*   handler    export default function handler(req, res)
\*   check      req.method === 'verb'
\* where recv, verb and path are the characters written in the text.
Statement(form, recv, verb, path) ==
  [form |-> form, recv |-> recv, verb |-> verb, path |-> path]

\* The text a route regular expression matches in a call statement or a
\* decorator statement (match[0]).
MatchText(st) ==
  IF st.form = "decorator"
    THEN << "@" >> \o st.verb \o << "(", "'" >> \o st.path \o << "'" >>
    ELSE st.recv \o << "." >> \o st.verb \o << "(", "'" >> \o st.path \o << "'" >>

PathU == << "/", "u" >>

PathUId == << "/", "u", "/", ":", "i", "d" >>

PathM == << "/", "m" >>

Routes == << "r", "o", "u", "t", "e", "s" >>

Api == << "a", "p", "i" >>

Pages == << "p", "a", "g", "e", "s" >>

NodeModules ==
  << "n", "o", "d", "e", "_", "m", "o", "d", "u", "l", "e", "s" >>

Js == << "j", "s" >>

Ts == << "t", "s" >>

\* The path of a file relative to the project root, as glob returns it.
RelativePath(dirNames, stem, ext) ==
  Join(Append(dirNames, stem), << "/" >>) \o << "." >> \o ext

\* The source files a project is made of.
\*   routes/server.js          two Express routes
\*   api/server.ts             a Hapi route, an Express route, a NestJS route
\*   pages/api/u/[id].js       a Next.js handler that compares req.method
\*   node_modules/routes/app.js  an Express route of a dependency
\*   lib/util.js               a file without routes
FilePool ==
  { [ name |-> RelativePath(<< Routes >>, Server, Js),
      content |-> << Statement("call", App, httpMethods[1], PathUId),
                     Statement("call", Router, httpMethods[2], PathU) >> ],
    [ name |-> RelativePath(<< Api >>, Server, Ts),
      content |-> << Statement("hapi", Server, httpMethods[2], PathU),
                     Statement("call", Router, httpMethods[1], PathUId),
                     Statement("decorator", << >>, Capitalize(GET), PathU) >> ],
    [ name |-> RelativePath(<< Pages, Api, << "u" >> >>,
                            << "[", "i", "d", "]" >>, Js),
      content |-> << Statement("handler", << >>, << >>, << >>),
                     Statement("check", << >>, POST, << >>) >> ],
    [ name |-> RelativePath(<< NodeModules, Routes >>, App, Js),
      content |-> << Statement("call", App, httpMethods[1], PathM) >> ],
    [ name |-> RelativePath(<< << "l", "i", "b" >> >>,
                            << "u", "t", "i", "l" >>, Js),
      content |-> << >> ] }

\* Largest number of source files of a project.
MaxFiles == 2

\* The projects: the files of the project in the order in which a
\* directory walk lists them.
RECURSIVE ListingsOf(_, _)
ListingsOf(pool, n) ==
  IF n = 0 THEN { << >> }
  ELSE LET shorter == ListingsOf(pool, n - 1)
       IN shorter \cup
            { Append(l, f) : l \in { s \in shorter : Len(s) = n - 1 },
                             f \in pool }

Projects ==
  { l \in ListingsOf(FilePool, MaxFiles) :
      \A i, j \in 1..Len(l) : i # j => l[i].name # l[j].name }

\* ------------------------------------------------------------------------
\* Endpoint analysis: file enumeration (glob)
\* ------------------------------------------------------------------------

Max(S) == CHOOSE x \in S : \A y \in S : y <= x

Min(S) == CHOOSE x \in S : \A y \in S : x <= y

Last(seq) == seq[Len(seq)]

EndsWith(s, suffix) ==
  /\ Len(suffix) <= Len(s)
  /\ SubSeq(s, Len(s) - Len(suffix) + 1, Len(s)) = suffix

\* The directory names of a relative path and its base name.
DirNames(name) ==
  LET segments == Split(name, "/") IN SubSeq(segments, 1, Len(segments) - 1)

BaseName(name) == Last(Split(name, "/"))

\* path.extname.
extname(filename) ==
  LET base == BaseName(filename)
      dots == { i \in 2..Len(base) : base[i] = "." }
  IN IF dots = { } THEN << >> ELSE SubSeq(base, Max(dots), Len(base))

\* '*.{js,ts,jsx,tsx}' and '*.{js,ts}'
RestExtensions ==
  { << "." >> \o Js, << "." >> \o Ts,
    << "." >> \o Js \o << "x" >>, << "." >> \o Ts \o << "x" >> }

NodeExtensions == { << "." >> \o Js, << "." >> \o Ts }

\* ignore: ['node_modules/**', ...]: the path lies below one of the roots.
Ignored(name, roots) ==
  LET segments == Split(name, "/")
  IN Len(segments) > 1 /\ segments[1] \in roots

RestIgnore ==
  { NodeModules, << "v", "e", "n", "d", "o", "r" >>, << "d", "i", "s", "t" >>,
    << "b", "u", "i", "l", "d" >>, << "t", "a", "r", "g", "e", "t" >> }

NodeIgnore ==
  { NodeModules, << "d", "i", "s", "t" >>, << "b", "u", "i", "l", "d" >> }

Controllers ==
  << "c", "o", "n", "t", "r", "o", "l", "l", "e", "r", "s" >>

Handlers == << "h", "a", "n", "d", "l", "e", "r", "s" >>

Endpoints == << "e", "n", "d", "p", "o", "i", "n", "t", "s" >>

\* The number of scanForEndpoints patterns that can match a JavaScript or
\* TypeScript file; the patterns after them ask for other extensions.
RestPatterns == 10

Py == << "p", "y" >>

Views == << "v", "i", "e", "w", "s" >>

\* Whether the index-th pattern of scanForEndpoints matches the path: the
\* JavaScript patterns (1..4) and the Python patterns (5..10).
RestGlob(index, name) ==
  LET dirNames == DirNames(name)
      base == BaseName(name)
      stem == SubSeq(base, 1, Len(base) - Len(extname(name)))
      isPy == extname(name) = << "." >> \o Py
      isJs == extname(name) \in RestExtensions
  IN /\ ~ Ignored(name, RestIgnore)
     /\ CASE index = 1 ->
               /\ isJs
               /\ \E i \in 1..Len(dirNames) :
                    dirNames[i] \in { Api, Routes, Controllers, Handlers,
                                      Endpoints }
          [] index = 2 ->
               /\ isJs
               /\ \E word \in { Api,
                                SubSeq(Routes, 1, 5),
                                SubSeq(Controllers, 1, 10),
                                SubSeq(Handlers, 1, 7),
                                SubSeq(Endpoints, 1, 8),
                                Server } :
                    Includes(stem, word)
          [] index = 3 ->
               /\ isJs
               /\ \E i \in 1..(Len(dirNames) - 1) :
                    dirNames[i] = Pages /\ dirNames[i + 1] = Api
          [] index = 4 ->
               /\ isJs
               /\ \E i \in 1..(Len(dirNames) - 2) :
                    /\ dirNames[i] = << "s", "r", "c" >>
                    /\ dirNames[i + 1] = Pages
                    /\ dirNames[i + 2] = Api
          [] index = 5 -> isPy /\ stem = Views
          [] index = 6 -> isPy /\ stem = << "u", "r", "l", "s" >>
          [] index = 7 ->
               isPy /\ stem = << "u", "r", "l", "p", "a", "t", "t", "e", "r",
                                 "n", "s" >>
          [] index = 8 ->
               /\ isPy
               /\ \E word \in { SubSeq(Views, 1, 4),
                                Api,
                                SubSeq(Endpoints, 1, 8),
                                << "r", "e", "s", "o", "u", "r", "c", "e" >> } :
                    Includes(stem, word)
          [] index = 9 -> isPy /\ stem = App
          [] index = 10 -> isPy /\ stem = << "m", "a", "i", "n" >>

\* The files scanForEndpoints reads, in the order it reads them: pattern by
\* pattern, the matches of a pattern in listing order.
RestScan(listing) ==
  Concat([index \in 1..RestPatterns |->
            SelectSeq(listing, LAMBDA f : RestGlob(index, f.name))])

\* glob('**/{routes,api,controllers}/**/*.{js,ts}')
routeFiles(listing) ==
  SelectSeq(listing, LAMBDA f :
    /\ ~ Ignored(f.name, NodeIgnore)
    /\ \E ext \in NodeExtensions : EndsWith(BaseName(f.name), ext)
    /\ \E i \in 1..Len(DirNames(f.name)) :
         DirNames(f.name)[i] \in { Routes, Api, Controllers })

\* glob('**/{app,index,server,main}.{js,ts}')
appFiles(listing) ==
  SelectSeq(listing, LAMBDA f :
    /\ ~ Ignored(f.name, NodeIgnore)
    /\ \E ext \in NodeExtensions :
         BaseName(f.name) \in
           { App \o ext, << "i", "n", "d", "e", "x" >> \o ext, Server \o ext,
             << "m", "a", "i", "n" >> \o ext })

\* const allFiles = [...routeFiles, ...appFiles]
allFiles(listing) == routeFiles(listing) \o appFiles(listing)

\* ------------------------------------------------------------------------
\* RESTAnalyzer: extraction from one JavaScript or TypeScript file
\* ------------------------------------------------------------------------

\* A template literal `<prefix>${text}`.
Description(prefix, text) == [prefix |-> prefix, text |-> text]

\* The names path.match(/[{:]([^}/:]+)[}]?/g) finds from position i on,
\* each with the characters { } : removed.
RECURSIVE PathParamNames(_, _)
PathParamNames(path, i) ==
  IF i >= Len(path) THEN << >>
  ELSE IF path[i] \in { "{", ":" } /\ path[i + 1] \notin { "}", "/", ":" }
    THEN LET stop == { k \in (i + 1)..Len(path) : path[k] \in { "}", "/", ":" } }
             last == IF stop = { } THEN Len(path) ELSE Min(stop) - 1
             end == IF last < Len(path) /\ path[last + 1] = "}"
                      THEN last + 1 ELSE last
         IN << RemoveChars(SubSeq(path, i, end), ParamChars) >>
              \o PathParamNames(path, end + 1)
  ELSE PathParamNames(path, i + 1)

\* RESTAnalyzer.extractParametersFromPath
extractParametersFromPath(path) ==
  LET names == PathParamNames(path, 1)
  IN [i \in 1..Len(names) |->
        [ name |-> names[i], in |-> "path", type |-> "string",
          required |-> TRUE,
          description |-> Description("Path parameter: ", names[i]) ]]

\* s.replace(/\[([^\]]+)\]/g, '{$1}')
RECURSIVE BracketsToBraces(_)
BracketsToBraces(s) ==
  IF s = << >> THEN << >>
  ELSE LET closing == { j \in 3..Len(s) :
                          s[j] = "]" /\ \A k \in 2..(j - 1) : s[k] # "]" }
       IN IF s[1] = "[" /\ closing # { }
            THEN << "{" >> \o SubSeq(s, 2, Min(closing) - 1) \o << "}" >>
                   \o BracketsToBraces(SubSeq(s, Min(closing) + 1, Len(s)))
            ELSE << s[1] >> \o BracketsToBraces(Tail(s))

\* s.replace(/\/index$/, '')
StripIndex(s) ==
  LET suffix == << "/", "i", "n", "d", "e", "x" >>
  IN IF EndsWith(s, suffix) THEN SubSeq(s, 1, Len(s) - Len(suffix)) ELSE s

\* RESTAnalyzer.inferNextJsApiPath
inferNextJsApiPath(filename) ==
  LET marker == Pages \o << "/" >> \o Api \o << "/" >>
      starts == { i \in 1..Len(filename) :
                    /\ i + Len(marker) - 1 <= Len(filename)
                    /\ SubSeq(filename, i, i + Len(marker) - 1) = marker
                    /\ \E ext \in RestExtensions :
                         /\ EndsWith(filename, ext)
                         /\ i + Len(marker) <= Len(filename) - Len(ext) }
  IN IF starts = { }
       THEN << "/" >> \o Api \o << "/", "u", "n", "k", "n", "o", "w", "n" >>
       ELSE LET ext == CHOOSE e \in RestExtensions : EndsWith(filename, e)
                captured == SubSeq(filename, Min(starts) + Len(marker),
                                   Len(filename) - Len(ext))
                apiPath == << "/" >> \o Api \o << "/" >>
                             \o StripIndex(BracketsToBraces(captured))
            IN IF apiPath = << "/" >> \o Api \o << "/" >>
                 THEN << "/" >> \o Api ELSE apiPath

\* check.match(/['\"](\\w+)['\"]/i) on the text req.method === 'verb': the
\* pattern asks for a backslash and then the letter w after the quote.
MethodMatch(check) ==
  IF /\ Len(check.verb) >= 2
     /\ check.verb[1] = "\\"
     /\ \A k \in 2..Len(check.verb) : check.verb[k] \in { "w", "W" }
    THEN << ToUpperCase(check.verb) >>
    ELSE << >>

\* RESTAnalyzer.extractMethodsFromNextJsHandler
extractMethodsFromNextJsHandler(functionBody) ==
  LET methodChecks ==
        SelectSeq(functionBody, LAMBDA st :
          st.form = "check" /\ ToUpperCase(st.verb) \in Range(methods))
      found == Concat([i \in 1..Len(methodChecks) |->
                         MethodMatch(methodChecks[i])])
  IN IF Len(found) > 0 THEN found ELSE << GET, POST >>

\* RESTAnalyzer.extractMethodFromMatch
extractMethodFromMatch(matchStr) ==
  LET upperMatch == ToUpperCase(matchStr)
      hits == { i \in 1..Len(methods) : Includes(upperMatch, methods[i]) }
  IN IF hits = { } THEN GET ELSE methods[Min(hits)]

\* Whether the index-th pattern of extractJavaScriptEndpoints matches the
\* statement.
JavaScriptPattern(index, st) ==
  CASE index = 0 -> /\ st.form = "call"
                    /\ st.recv \in { App, Router, Server }
                    /\ st.verb \in Range(httpMethods)
    [] index = 1 -> /\ st.form = "decorator"
                    /\ ToLowerCase(st.verb) \in Range(httpMethods)
    [] index = 2 -> st.form = "hapi"
    [] index = 3 -> st.form = "handler"

\* The endpoints the body of the while loop pushes for one match.
JavaScriptMatch(index, st, content, filename) ==
  IF index = 2
    THEN << [ path |-> st.path,
              method |-> ToUpperCase(st.verb),
              description |-> Description("Hapi.js endpoint from ", filename),
              parameters |-> extractParametersFromPath(st.path) ] >>
  ELSE IF index = 3
    THEN LET apiPath == inferNextJsApiPath(filename)
             found == extractMethodsFromNextJsHandler(content)
         IN [i \in 1..Len(found) |->
               [ path |-> apiPath,
                 method |-> found[i],
                 description |->
                   Description("Next.js API route from ", filename),
                 parameters |-> extractParametersFromPath(apiPath) ]]
  ELSE << [ path |-> st.path,
            method |-> extractMethodFromMatch(MatchText(st)),
            description |-> Description("Endpoint from ", filename),
            parameters |-> extractParametersFromPath(st.path) ] >>

\* RESTAnalyzer.extractJavaScriptEndpoints: pattern by pattern, the matches
\* of a pattern in textual order.
extractJavaScriptEndpoints(content, filename) ==
  Concat([p \in 1..4 |->
    Concat([i \in 1..Len(content) |->
      IF JavaScriptPattern(p - 1, content[i])
        THEN JavaScriptMatch(p - 1, content[i], content, filename)
        ELSE << >>])])

\* ------------------------------------------------------------------------
\* RESTAnalyzer: extraction from one Python file
\* ------------------------------------------------------------------------

\* A Python file's text is a sequence of statements in textual order, one of
\*   flask    @app.route('path')  or  @app.route('path', methods=[recv])
\*            (recv the text between the brackets, << >> when not written)
\*   django   path('path'), url(r'path') or re_path(r'path')
\*   fastapi  @app.verb('path')
\*   class    class verb(...):

\* s.replace(/\(\?P<([^>]+)>[^)]+\)/g, '{$1}')
RECURSIVE ReplaceNamedGroups(_)
ReplaceNamedGroups(s) ==
  IF s = << >> THEN << >>
  ELSE LET opens == Len(s) >= 4 /\ SubSeq(s, 1, 4) = << "(", "?", "P", "<" >>
           gt == { j \in 5..Len(s) : s[j] = ">" }
           nameEnd == IF gt = { } THEN 0 ELSE Min(gt)
           rp == { j \in (nameEnd + 1)..Len(s) : s[j] = ")" }
           close == IF rp = { } THEN 0 ELSE Min(rp)
       IN IF opens /\ nameEnd > 5 /\ close > nameEnd + 1
            THEN << "{" >> \o SubSeq(s, 5, nameEnd - 1) \o << "}" >>
                   \o ReplaceNamedGroups(SubSeq(s, close + 1, Len(s)))
            ELSE << Head(s) >> \o ReplaceNamedGroups(Tail(s))

\* s.replace(/<sub>/g, rep) for a literal text sub.
RECURSIVE ReplaceAll(_, _, _)
ReplaceAll(s, sub, rep) ==
  IF s = << >> THEN << >>
  ELSE IF StartsWith(s, sub)
    THEN rep \o ReplaceAll(SubSeq(s, Len(sub) + 1, Len(s)), sub, rep)
  ELSE << Head(s) >> \o ReplaceAll(Tail(s), sub, rep)

\* s.replace(/\/+/g, '/')
RECURSIVE CollapseSlashes(_)
CollapseSlashes(s) ==
  IF s = << >> THEN << >>
  ELSE IF Head(s) = "/" /\ Len(s) >= 2 /\ s[2] = "/"
    THEN CollapseSlashes(Tail(s))
  ELSE << Head(s) >> \o CollapseSlashes(Tail(s))

\* RESTAnalyzer.normalizeDjangoPath
normalizeDjangoPath(path) ==
  CollapseSlashes(
    RemoveChars(
      ReplaceAll(ReplaceNamedGroups(path), << "\\", "d", "+" >>,
                 << "{", "i", "d", "}" >>),
      { "^", "$" }))

\* methodsStr ? methodsStr.replace(/['"\s]/g, '').split(',') : ['GET'],
\* each entry then method.trim().toUpperCase()
FlaskMethods(methodsStr) ==
  IF methodsStr = << >> THEN << GET >>
  ELSE LET entries == Split(RemoveChars(methodsStr, { "'", "\"", " " }), ",")
       IN [i \in 1..Len(entries) |-> ToUpperCase(Trim(entries[i]))]

ViewSet == << "V", "i", "e", "w", "S", "e", "t" >>

\* viewName.replace(/ViewSet|View/i, ''): the leftmost match is removed.
RemoveFirstView(viewName) ==
  LET lower == ToLowerCase(viewName)
      view == ToLowerCase(SubSeq(ViewSet, 1, 4))
      at == { i \in 1..(Len(lower) - 3) : SubSeq(lower, i, i + 3) = view }
  IN IF at = { } THEN viewName
     ELSE LET i == Min(at)
              n == IF i + 6 <= Len(lower)
                        /\ SubSeq(lower, i, i + 6) = ToLowerCase(ViewSet)
                     THEN 7 ELSE 4
          IN SubSeq(viewName, 1, i - 1) \o SubSeq(viewName, i + n, Len(viewName))

\* const crudEndpoints = [...] : method, path suffix and description.
crudEndpoints ==
  << << GET, << >>, << "L", "i", "s", "t" >> >>,
     << POST, << >>, << "C", "r", "e", "a", "t", "e" >> >>,
     << GET, << "{", "i", "d", "}", "/" >>,
        << "R", "e", "t", "r", "i", "e", "v", "e" >> >>,
     << PUT, << "{", "i", "d", "}", "/" >>, << "U", "p", "d", "a", "t", "e" >> >>,
     << PATCH, << "{", "i", "d", "}", "/" >>,
        << "P", "a", "r", "t", "i", "a", "l", " ", "U", "p", "d", "a", "t", "e" >> >>,
     << DELETE, << "{", "i", "d", "}", "/" >>,
        << "D", "e", "l", "e", "t", "e" >> >> >>

\* Whether the index-th pattern of extractPythonEndpoints matches the
\* statement.
PythonPattern(index, st) ==
  CASE index = 0 -> st.form = "flask"
    [] index = 1 -> st.form = "django"
    [] index = 2 -> /\ st.form = "fastapi"
                    /\ ToLowerCase(st.verb) \in Range(httpMethods)
    [] index = 3 -> /\ st.form = "class"
                    /\ \/ Len(st.verb) > 7 /\ EndsWith(st.verb, ViewSet)
                       \/ Len(st.verb) > 4 /\ EndsWith(st.verb, SubSeq(ViewSet, 1, 4))

\* The endpoints the body of the while loop pushes for one match.
PythonMatch(index, st, filename) ==
  IF index = 0
    THEN LET found == FlaskMethods(st.recv)
         IN [i \in 1..Len(found) |->
               [ path |-> st.path,
                 method |-> found[i],
                 description |-> Description("Flask endpoint from ", filename),
                 parameters |-> extractParametersFromPath(st.path) ]]
  ELSE IF index = 1
    THEN LET path == normalizeDjangoPath(st.path)
         IN << [ path |-> path,
                 method |-> GET,
                 description |-> Description("Django endpoint from ", filename),
                 parameters |-> extractParametersFromPath(path) ] >>
  ELSE IF index = 2
    THEN << [ path |-> st.path,
              method |-> ToUpperCase(st.verb),
              description |-> Description("FastAPI endpoint from ", filename),
              parameters |-> extractParametersFromPath(st.path) ] >>
  ELSE LET viewName == st.verb
           basePath == << "/" >> \o ToLowerCase(RemoveFirstView(viewName))
                         \o << "/" >>
       IN [i \in 1..Len(crudEndpoints) |->
             [ path |-> basePath \o crudEndpoints[i][2],
               method |-> crudEndpoints[i][1],
               description |->
                 Description("DRF ", viewName \o << " ", "-", " " >>
                                       \o crudEndpoints[i][3]),
               parameters |->
                 extractParametersFromPath(basePath \o crudEndpoints[i][2]) ]]

\* RESTAnalyzer.extractPythonEndpoints: pattern by pattern, the matches of
\* a pattern in textual order.
extractPythonEndpoints(content, filename) ==
  Concat([p \in 1..4 |->
    Concat([i \in 1..Len(content) |->
      IF PythonPattern(p - 1, content[i])
        THEN PythonMatch(p - 1, content[i], filename)
        ELSE << >>])])

\* The array an earlier call has left, were the per-file extraction to fill
\* an array it shares with the earlier calls.
SharedEndpointsArray(left) == left

\* const endpoints: EndpointInfo[] = [] : the array a call of the per-file
\* extraction fills is a new one, whatever an earlier call has left.
NewEndpointsArray(left) == << >>

\* RESTAnalyzer.extractEndpointsFromFile.  The cases of the switch other
\* than .js, .ts, .jsx, .tsx and .py take extensions no file of the model
\* has.
extractEndpointsFromFile(content, filename, left) ==
  LET ext == extname(filename)
  IN IF ext \in RestExtensions
       THEN NewEndpointsArray(left) \o extractJavaScriptEndpoints(content, filename)
     ELSE IF ext = << "." >> \o Py
       THEN NewEndpointsArray(left) \o extractPythonEndpoints(content, filename)
     ELSE NewEndpointsArray(left)

\* ------------------------------------------------------------------------
\* NodeJSAnalyzer: extraction from one file
\* ------------------------------------------------------------------------

\* [a-zA-Z_$] and [a-zA-Z0-9_$]
IdentStart == Range(LowerLetters) \cup Range(UpperLetters) \cup { "_", "$" }

IdentChars == IdentStart \cup Digits

\* The last position of the identifier that starts at position i of s.
IdentEnd(s, i) ==
  LET stop == { k \in i..Len(s) : s[k] \notin IdentChars }
  IN IF stop = { } THEN Len(s) ELSE Min(stop) - 1

\* path.match(/:([a-zA-Z_$][a-zA-Z0-9_$]*)/g), each match without its colon
\* (param.substring(1)), from position i on.
RECURSIVE ColonParams(_, _)
ColonParams(path, i) ==
  IF i >= Len(path) THEN << >>
  ELSE IF path[i] = ":" /\ path[i + 1] \in IdentStart
    THEN << SubSeq(path, i + 1, IdentEnd(path, i + 1)) >>
           \o ColonParams(path, IdentEnd(path, i + 1) + 1)
  ELSE ColonParams(path, i + 1)

\* path.replace(/:([a-zA-Z_$][a-zA-Z0-9_$]*)/g, '{$1}') from position i on.
RECURSIVE ReplaceColonParams(_, _)
ReplaceColonParams(path, i) ==
  IF i > Len(path) THEN << >>
  ELSE IF i < Len(path) /\ path[i] = ":" /\ path[i + 1] \in IdentStart
    THEN << "{" >> \o SubSeq(path, i + 1, IdentEnd(path, i + 1)) \o << "}" >>
           \o ReplaceColonParams(path, IdentEnd(path, i + 1) + 1)
  ELSE << path[i] >> \o ReplaceColonParams(path, i + 1)

\* NodeJSAnalyzer.normalizePath
normalizePath(path) == ReplaceColonParams(path, 1)

\* The keys queryPatterns capture in the context, first pattern first.  A
\* query statement is the text req<recv>query<verb><path>; both patterns ask
\* for a backslash and one more character where recv and verb stand.
QueryKeys(context) ==
  LET escaped(sep) == Len(sep) = 2 /\ sep[1] = "\\"
      named(st) == st.path # << >> /\ st.path[1] \in IdentStart
      first == SelectSeq(context, LAMBDA st :
                 st.form = "query" /\ escaped(st.recv) /\ escaped(st.verb)
                   /\ named(st))
      second == SelectSeq(context, LAMBDA st :
                  st.form = "query" /\ escaped(st.verb) /\ named(st))
      both == first \o second
  IN [i \in 1..Len(both) |-> SubSeq(both[i].path, 1, IdentEnd(both[i].path, 1))]

\* if (!parameters.find(p => p.name === match[1])) parameters.push(...)
RECURSIVE PushQueryParameters(_, _)
PushQueryParameters(parameters, keys) ==
  IF keys = << >> THEN parameters
  ELSE IF \E i \in 1..Len(parameters) : parameters[i].name = Head(keys)
    THEN PushQueryParameters(parameters, Tail(keys))
  ELSE PushQueryParameters(
         Append(parameters,
                [ name |-> Head(keys), type |-> "string", required |-> FALSE,
                  in |-> "query" ]),
         Tail(keys))

\* NodeJSAnalyzer.extractParameters.  The files of FilePool are shorter than
\* the 500 characters the context extends to either side of the match, so
\* the context is the whole content.
extractParameters(path, content) ==
  LET pathParams == ColonParams(path, 1)
      parameters == [i \in 1..Len(pathParams) |->
                       [ name |-> pathParams[i], type |-> "string",
                         required |-> TRUE, in |-> "path" ]]
  IN PushQueryParameters(parameters, QueryKeys(content))

\* a || b for strings: the empty string and undefined are falsy.
OrElse(a, b) == IF a = << >> THEN b ELSE a

\* The capture groups of the matches of the index-th pattern of allPatterns
\* in the statement: match[1] and match[2], << >> for an unset group.
NodePattern(index, st) ==
  CASE index = 0 ->
         IF st.form = "call" /\ st.recv \in { App, Router }
              /\ st.verb \in Range(httpMethods)
           THEN << << st.verb, st.path >> >> ELSE << >>
    [] index = 1 ->
         IF st.form = "route" THEN << << st.path, << >> >> >> ELSE << >>
    [] index = 2 ->
         IF st.form = "call" /\ st.recv = Fastify
              /\ st.verb \in Range(httpMethods)
           THEN << << st.verb, st.path >> >> ELSE << >>
    [] index = 3 ->
         IF st.form = "url" THEN << << st.path, << >> >> >> ELSE << >>
    [] index = 4 ->
         IF st.form = "call" /\ st.recv = Router
              /\ st.verb \in Range(httpMethods)
           THEN << << st.verb, st.path >> >> ELSE << >>

\* The body of the while loop of parseEndpointsFromFile for one match.
NodeMatch(match, content, filename) ==
  LET method == OrElse(match[1], httpMethods[1])
      path == OrElse(match[2], match[1])
  IN IF ToLowerCase(method) \in Range(httpMethods)
       THEN << [ path |-> normalizePath(path),
                 method |-> ToUpperCase(method),
                 description |-> Description("Endpoint from ", filename),
                 parameters |-> extractParameters(path, content) ] >>
       ELSE << >>

\* NodeJSAnalyzer.parseEndpointsFromFile
parseEndpointsFromFile(content, filename, left) ==
  NewEndpointsArray(left) \o
  Concat([p \in 1..5 |->
    Concat([i \in 1..Len(content) |->
      LET found == NodePattern(p - 1, content[i])
      IN Concat([k \in 1..Len(found) |->
                   NodeMatch(found[k], content, filename)])])])

\* ------------------------------------------------------------------------
\* deduplicateEndpoints (RESTAnalyzer and NodeJSAnalyzer have the same text)
\* ------------------------------------------------------------------------

\* endpoints.filter(...) with the Set seen, from the head of the list on.
RECURSIVE FilterUnseen(_, _)
FilterUnseen(candidates, seen) ==
  IF candidates = << >> THEN << >>
  ELSE LET key == EndpointKey(Head(candidates))
       IN IF key \in seen
            THEN FilterUnseen(Tail(candidates), seen)
            ELSE << Head(candidates) >>
                   \o FilterUnseen(Tail(candidates), seen \cup { key })

\* The list as it is, were no duplicate discarded.
KeepAll(candidates) == candidates

\* The first position of every key with the entry of the key's last
\* occurrence, were a later duplicate to replace the earlier one.
KeepLast(candidates) ==
  LET firsts == FilterUnseen(candidates, { })
  IN [i \in 1..Len(firsts) |->
        candidates[Max({ j \in 1..Len(candidates) :
                           EndpointKey(candidates[j]) = EndpointKey(firsts[i]) })]]

\* RESTAnalyzer.deduplicateEndpoints
deduplicateEndpoints(candidates) == FilterUnseen(candidates, { })

\* NodeJSAnalyzer.deduplicateEndpoints
nodeDeduplicateEndpoints(candidates) == deduplicateEndpoints(candidates)

\* ------------------------------------------------------------------------
\* OpenAPIAnalyzer
\* ------------------------------------------------------------------------

\* A JSON object as written: its members in textual order, a key possibly
\* written more than once.
Member(key, value) == [key |-> key, value |-> value]

RECURSIVE FirstKeys(_, _)
FirstKeys(members, seen) ==
  IF members = << >> THEN << >>
  ELSE IF Head(members).key \in seen
    THEN FirstKeys(Tail(members), seen)
  ELSE << Head(members).key >>
         \o FirstKeys(Tail(members), seen \cup { Head(members).key })

\* JSON.parse of an object: every key once, at the position of its first
\* member and with the value of its last member.
ParseObject(members) ==
  LET keys == FirstKeys(members, { })
  IN [i \in 1..Len(keys) |->
        Member(keys[i],
               members[Max({ j \in 1..Len(members) :
                               members[j].key = keys[i] })].value)]

\* JSON.parse of the text of a spec file: the paths object and each of
\* its path items.
JSONParse(text) ==
  LET paths == ParseObject(text)
  IN [i \in 1..Len(paths) |->
        Member(paths[i].key, ParseObject(paths[i].value))]

\* object[key]: << value >>, or << >> for undefined.
Property(object, key) ==
  LET at == { i \in 1..Len(object) : object[i].key = key }
  IN IF at = { } THEN << >> ELSE << object[Min(at)].value >>

\* parseInt of a status code: the number its leading digits spell, or NaN.
RECURSIVE DigitsValue(_, _)
DigitsValue(s, value) ==
  IF s = << >> \/ Head(s) \notin Digits THEN value
  ELSE DigitsValue(Tail(s),
                   10 * value
                     + (CHOOSE d \in 0..9 :
                          << "0", "1", "2", "3", "4", "5", "6", "7", "8", "9" >>[d + 1]
                            = Head(s)))

parseInt(s) ==
  IF s = << >> \/ Head(s) \notin Digits
    THEN [nan |-> TRUE, value |-> 0]
    ELSE [nan |-> FALSE, value |-> DigitsValue(s, 0)]

\* An operation as written in the spec file.  summary and description are
\* texts ("" when not written); a parameter is written with its name and
\* location, and << >> stands for a member that is not written.
Operation(summary, description, parameters, responses) ==
  [ summary |-> summary, description |-> description,
    parameters |-> parameters, responses |-> responses ]

\* OpenAPIAnalyzer.extractParameters
extractOperationParameters(operation) ==
  [i \in 1..Len(operation.parameters) |->
     LET param == operation.parameters[i]
     IN [ name |-> param.name,
          type |-> IF param.schemaType # "" THEN param.schemaType
                   ELSE IF param.type # "" THEN param.type
                   ELSE "string",
          required |-> param.required,
          description |-> param.description,
          in |-> param.in ]]

\* OpenAPIAnalyzer.extractResponses
extractResponses(operation) ==
  LET responses == ParseObject(operation.responses)
  IN [i \in 1..Len(responses) |->
        [ statusCode |-> parseInt(responses[i].key),
          description |-> responses[i].value ]]

\* OpenAPIAnalyzer.extractEndpointsFromSpec
extractEndpointsFromSpec(spec) ==
  Concat([i \in 1..Len(spec) |->
    Concat([m \in 1..Len(httpMethods) |->
      LET operation == Property(spec[i].value, httpMethods[m])
      IN IF operation # << >>
           THEN << [ path |-> spec[i].key,
                     method |-> ToUpperCase(httpMethods[m]),
                     description |->
                       IF operation[1].summary # ""
                         THEN operation[1].summary
                         ELSE operation[1].description,
                     parameters |-> extractOperationParameters(operation[1]),
                     responses |-> extractResponses(operation[1]) ] >>
           ELSE << >>])])

Json == << "j", "s", "o", "n" >>

Yaml == << "y", "a", "m", "l" >>

IdParameter ==
  [ name |-> "id", in |-> "path", required |-> TRUE, type |-> "",
    schemaType |-> "integer", description |-> "" ]

\* The spec file of a project: none (no name), openapi.json, swagger.yaml
\* or the openapi.json of a dependency under node_modules.
\* The JSON file writes the path /u twice and an upper-case key that is no
\* method; no operation of it writes tags or a response schema.
SpecPool ==
  { [name |-> << >>, text |-> << >>],
    [ name |-> << "o", "p", "e", "n" >> \o Api \o << "." >> \o Json,
      text |->
        << Member(PathU,
                  << Member(httpMethods[2], Operation("create", "", << >>, << >>)),
                     Member(httpMethods[1], Operation("", "list", << >>, << >>)) >>),
           Member(<< "/", "u", "/", "{", "i", "d", "}" >>,
                  << Member(httpMethods[1],
                            Operation("read", "", << IdParameter >>,
                                      << Member(<< "2", "0", "0" >>, "ok"),
                                         Member(<< "d", "e", "f", "a", "u", "l", "t" >>,
                                                "error") >>)),
                     Member(GET, Operation("shout", "", << >>, << >>)) >>),
           Member(PathU,
                  << Member(httpMethods[1], Operation("", "index", << >>, << >>)),
                     Member(httpMethods[1], Operation("all", "", << >>, << >>)) >>) >> ],
    [ name |-> << "s", "w", "a", "g", "g", "e", "r", "." >> \o Yaml,
      text |-> << >> ],
    [ name |-> NodeModules \o << "/", "o", "p", "e", "n" >> \o Api
                 \o << "." >> \o Json,
      text |-> << >> ] }

\* ------------------------------------------------------------------------
\* ProjectAnalyzer.analyze
\* ------------------------------------------------------------------------

Modes == { "openapi", "nodejs", "rest-api" }

NoResults == [m \in Modes |-> { }]

AnaFrame ==
  UNCHANGED << project, specFile, pathExists, packageJson, genVars, auxVars >>

\* The scan has read its last file: scanForEndpoints / extractEndpoints
\* returns the deduplicated list and analyze resolves.
Resolve(m, candidates) ==
  LET list == IF m = "nodejs" THEN nodeDeduplicateEndpoints(candidates)
              ELSE deduplicateEndpoints(candidates)
  IN /\ result' = list
     /\ returned' = [returned EXCEPT ![m] = @ \cup { list }]
     /\ apc' = "done"

\* glob('**/{swagger,openapi}.{json,yaml,yml}', ignore node_modules/**)
openApiFiles(spec) ==
  IF /\ spec.name # << >>
     /\ ~ Ignored(spec.name, { NodeModules })
     /\ BaseName(spec.name) \in
          { stem \o << "." >> \o ext :
              stem \in { << "s", "w", "a", "g", "g", "e", "r" >>,
                         << "o", "p", "e", "n" >> \o Api },
              ext \in { Json, Yaml, << "y", "m", "l" >> } }
    THEN << spec >> ELSE << >>

\* glob('**/{api,routes,controllers}/**/*.{js,ts,py,java}', ignore
\* node_modules/**)
apiFiles(listing) ==
  SelectSeq(listing, LAMBDA f :
    /\ ~ Ignored(f.name, { NodeModules })
    /\ extname(f.name) \in { << "." >> \o Js, << "." >> \o Ts, << "." >> \o Py,
                             << ".", "j", "a", "v", "a" >> }
    /\ \E i \in 1..Len(DirNames(f.name)) :
         DirNames(f.name)[i] \in { Api, Routes, Controllers })

\* glob('**/*.{js,ts}', ignore node_modules/**)
codeFiles(listing) ==
  SelectSeq(listing, LAMBDA f :
    /\ ~ Ignored(f.name, { NodeModules })
    /\ extname(f.name) \in NodeExtensions)

\* What detectProjectType would return were the package.json check made
\* before the glob for spec files.
PackageJsonFirst(listing, spec, hasPackageJson) ==
  IF hasPackageJson THEN "nodejs"
  ELSE IF openApiFiles(spec) # << >> THEN "openapi"
  ELSE IF apiFiles(listing) # << >> THEN "rest-api"
  ELSE IF codeFiles(listing) # << >> THEN "nodejs"
  ELSE "rest-api"

\* ProjectAnalyzer.detectProjectType
detectProjectType(listing, spec, hasPackageJson) ==
  IF openApiFiles(spec) # << >> THEN "openapi"
  ELSE IF hasPackageJson THEN "nodejs"
  ELSE IF apiFiles(listing) # << >> THEN "rest-api"
  ELSE IF codeFiles(listing) # << >> THEN "nodejs"
  ELSE "rest-api"

\* NodeJSAnalyzer.analyze and RESTAnalyzer.analyze up to the first
\* readFile: the globs enumerate the files to scan.
BeginScan(m) ==
  LET list == IF m = "nodejs" THEN allFiles(project) ELSE RestScan(project)
  IN /\ mode' = m
     /\ again' = (returned[m] # { })
     /\ scan' = list
     /\ fileIdx' = 1
     /\ acc' = << >>
     /\ aerror' = "none"
     /\ IF list = << >>
          THEN Resolve(m, << >>)
          ELSE apc' = "scanning" /\ UNCHANGED << result, returned >>
     /\ UNCHANGED << fileEndpoints, calls >>

\* OpenAPIAnalyzer.analyze
OpenApiAnalyze ==
  /\ mode' = "openapi"
  /\ again' = (returned["openapi"] # { })
  /\ scan' = << >>
  /\ fileIdx' = 1
  /\ acc' = << >>
  /\ IF openApiFiles(specFile) = << >>
       THEN /\ apc' = "rejected"
            /\ aerror' = "No OpenAPI/Swagger files found"
            /\ UNCHANGED << result, returned >>
     ELSE IF ToLowerCase(extname(specFile.name)) = << "." >> \o Json
       THEN LET list == extractEndpointsFromSpec(JSONParse(specFile.text))
            IN /\ result' = list
               /\ returned' = [returned EXCEPT !["openapi"] = @ \cup { list }]
               /\ apc' = "done"
               /\ aerror' = "none"
     ELSE /\ apc' = "rejected"
          /\ aerror' = "YAML parsing not implemented"
          /\ UNCHANGED << result, returned >>
  /\ UNCHANGED << fileEndpoints, calls >>

\* throw new Error(...) in ProjectAnalyzer.analyze: no analyzer has run.
Reject(message) ==
  /\ apc' = "rejected"
  /\ aerror' = message
  /\ UNCHANGED << mode, again, scan, fileIdx, acc, fileEndpoints, calls,
                  result, returned >>

\* The switch of ProjectAnalyzer.analyze, were its default case to run the
\* REST analyzer.
DispatchDefaultsToRest(detectedType) ==
  IF detectedType = "openapi" THEN OpenApiAnalyze
  ELSE IF detectedType = "nodejs" THEN BeginScan("nodejs")
  ELSE BeginScan("rest-api")

\* The switch of ProjectAnalyzer.analyze.
Dispatch(detectedType) ==
  IF detectedType = "openapi" THEN OpenApiAnalyze
  ELSE IF detectedType \in { "nodejs", "rest-api" } THEN BeginScan(detectedType)
  ELSE Reject("Unsupported project type")

\* ProjectAnalyzer.analyze(projectPath, type) up to the first readFile of
\* the analyzer it dispatches to.
Analyze(type) ==
  /\ apc \in { "idle", "done" }
  /\ requested' = type
  /\ IF ~ pathExists
       THEN Reject("Project path does not exist")
       ELSE Dispatch(IF type = "auto"
                       THEN detectProjectType(project, specFile, packageJson)
                       ELSE type)
  /\ AnaFrame

\* analyze(projectPath, 'nodejs' | 'rest-api')
StartScan == \E m \in { "nodejs", "rest-api" } : Analyze(m)

\* analyze(projectPath) and analyze(projectPath, 'auto')
AnalyzeAuto == Analyze("auto")

\* analyze(projectPath, type) with a type the switch has no case for.
AnalyzeUnsupported == Analyze("graphql")

\* One turn of the for-of loop over the files: readFile, the per-file
\* extraction and endpoints.push(...fileEndpoints); after the last file the
\* return statement.
ScanFile ==
  /\ apc = "scanning"
  /\ \E io \in { "ok", "fails" } :
       IF io = "fails"
         THEN /\ apc' = "rejected"
              /\ aerror' = "readFile"
              /\ UNCHANGED << fileIdx, acc, fileEndpoints, calls, result,
                              returned >>
         ELSE LET file == scan[fileIdx]
                  extracted ==
                    IF mode = "nodejs"
                      THEN parseEndpointsFromFile(file.content, file.name,
                                                  fileEndpoints)
                      ELSE extractEndpointsFromFile(file.content, file.name,
                                                    fileEndpoints)
              IN /\ fileEndpoints' = extracted
                 /\ calls' = calls \cup
                      { [ analyzer |-> mode, content |-> file.content,
                          filename |-> file.name, result |-> extracted ] }
                 /\ acc' = acc \o extracted
                 /\ aerror' = aerror
                 /\ IF fileIdx = Len(scan)
                      THEN Resolve(mode, acc \o extracted) /\ fileIdx' = fileIdx
                      ELSE /\ fileIdx' = fileIdx + 1
                           /\ UNCHANGED << apc, result, returned >>
  /\ UNCHANGED << mode, again, scan, requested >>
  /\ AnaFrame

\* analyze(projectPath, 'openapi')
AnalyzeOpenApi == Analyze("openapi")

\* No generate call has been made.
GeneratorIdle ==
  /\ endpoints = << >>
  /\ config = [ outputFormat |-> "typescript", includeTests |-> TRUE,
                includeDocumentation |-> TRUE,
                excludeEndpoints |-> [defined |-> TRUE, items |-> << >>] ]
  /\ dryRun = FALSE
  /\ pc = "idle"
  /\ idx = 1
  /\ templates = { }
  /\ dirs = { }
  /\ files = NoFiles
  /\ log = << >>
  /\ fsOps = << >>
  /\ error = NoError
  /\ atStart = [dirs |-> { }, files |-> NoFiles]
  /\ prev = NoPrev

AnaInit ==
  /\ GeneratorIdle
  /\ AuxIdle
  /\ project \in Projects
  /\ specFile \in SpecPool
  /\ packageJson \in BOOLEAN
  /\ pathExists \in BOOLEAN
  /\ ~ pathExists => /\ project = << >>
                     /\ specFile.name = << >>
                     /\ ~ packageJson
  /\ requested = "none"
  /\ mode = "none"
  /\ again = FALSE
  /\ apc = "idle"
  /\ scan = << >>
  /\ fileIdx = 1
  /\ acc = << >>
  /\ fileEndpoints = << >>
  /\ result = << >>
  /\ aerror = "none"
  /\ calls = { }
  /\ returned = NoResults

AnaNext ==
  \/ StartScan
  \/ ScanFile
  \/ AnalyzeOpenApi
  \/ AnalyzeAuto
  \/ AnalyzeUnsupported

SpecAnalyze == AnaInit /\ [][AnaNext]_vars

\* ------------------------------------------------------------------------
\* Properties of the endpoint analysis (specification SpecAnalyze)
\* ------------------------------------------------------------------------

\* C1: in every analysis mode (openapi, nodejs, rest-api), no list of
\* endpoints that analyze has returned holds two entries with the same
\* (method, path) pair.
C1_UniqueMethodPath ==
  \A m \in Modes : \A list \in returned[m] :
    \A i, j \in 1..Len(list) :
      (list[i].method = list[j].method /\ list[i].path = list[j].path)
        => i = j

\* C1 witness: a rest-api analysis has returned after discarding duplicate
\* candidates, and the openapi and nodejs analyses of the same project have
\* returned two endpoints or more.
C1_Witness ==
  /\ apc = "done" /\ mode = "rest-api"
  /\ Len(result) >= 2 /\ Len(result) < Len(acc)
  /\ \E list \in returned["openapi"] : Len(list) >= 2
  /\ \E list \in returned["nodejs"] : Len(list) >= 2

\* The positions of the candidates that no earlier candidate shares its
\* 'METHOD:path' key with.
FirstOccurrences(candidates) ==
  { i \in 1..Len(candidates) :
      \A j \in 1..(i - 1) :
        candidates[j].method \o << ":" >> \o candidates[j].path
          # candidates[i].method \o << ":" >> \o candidates[i].path }

\* C2: the list deduplicateEndpoints returns is the subsequence of the
\* candidates at the first occurrence of each 'METHOD:path' key: exactly
\* those candidates, in input order, each the first occurrence's own entry
\* (description and parameters included).
C2_FirstOccurrenceKept ==
  (apc = "done" /\ mode \in { "nodejs", "rest-api" }) =>
    LET kept == FirstOccurrences(acc)
    IN /\ Len(result) = Cardinality(kept)
       /\ \A n \in 1..Len(result) :
            result[n] =
              acc[CHOOSE i \in kept : Cardinality({ k \in kept : k <= i }) = n]

\* C2 witness: a scan has returned whose candidates hold two entries with
\* the same key and different descriptions, with a kept candidate of
\* another key after the first of them.
C2_Witness ==
  /\ apc = "done" /\ mode = "rest-api"
  /\ \E i, j, k \in 1..Len(acc) :
       /\ i < k /\ k < j
       /\ acc[i].method = acc[j].method /\ acc[i].path = acc[j].path
       /\ acc[i].description # acc[j].description
       /\ k \in FirstOccurrences(acc)
       /\ i \in FirstOccurrences(acc)

\* C10: two per-file extractions by the same analyzer with the same content
\* and file name have returned equal lists, whatever was extracted before
\* or between them, and all analyze calls of one type over the project
\* have returned the same list of endpoints.
C10_ExtractionIsAFunction ==
  /\ \A c, d \in calls :
       (c.analyzer = d.analyzer /\ c.content = d.content
          /\ c.filename = d.filename)
         => c.result = d.result
  /\ \A m \in Modes : Cardinality(returned[m]) <= 1

\* C10 witness: a repeated rest-api analysis has returned that extracted
\* the same file twice with another file between, the file yielding
\* endpoints both times.
C10_Witness ==
  /\ apc = "done" /\ mode = "rest-api" /\ again
  /\ Len(scan) >= 3
  /\ scan[1] = scan[3] /\ scan[2] # scan[1]
  /\ fileEndpoints # << >>
  /\ \E c \in calls :
       c.analyzer = mode /\ c.filename = scan[1].name /\ c.result # << >>

\* The path with every segment ':name' written '{name}'.
BracedPath(path) ==
  LET segments == Split(path, "/")
  IN Join([i \in 1..Len(segments) |->
             IF segments[i] # << >> /\ segments[i][1] = ":"
               THEN << "{" >> \o Tail(segments[i]) \o << "}" >>
               ELSE segments[i]],
          << "/" >>)

\* The names of the ':name' segments of the path, left to right.
ColonSegmentNames(path) ==
  LET segments == SelectSeq(Split(path, "/"),
                            LAMBDA seg : seg # << >> /\ seg[1] = ":")
  IN [i \in 1..Len(segments) |-> Tail(segments[i])]

\* The endpoint is what the Express route st has to yield: its verb in
\* upper case, its path with '{name}' for ':name', and one required,
\* string-typed, in-path parameter per ':name' segment.
YieldedByExpressRoute(e, st) ==
  /\ e.method = ToUpperCase(st.verb)
  /\ e.path = BracedPath(st.path)
  /\ Len(e.parameters) = Len(ColonSegmentNames(st.path))
  /\ \A i \in 1..Len(e.parameters) :
       /\ e.parameters[i].name = ColonSegmentNames(st.path)[i]
       /\ e.parameters[i].in = "path"
       /\ e.parameters[i].required = TRUE
       /\ e.parameters[i].type = "string"

\* C11 (as claimed): in nodejs and in rest-api mode, the extraction of a
\* file that holds the Express route app.<verb>('/a/:name', h) returns an
\* endpoint whose path has '{name}' for each ':name' segment and whose
\* parameters are one required, string-typed, in-path parameter per such
\* segment.
C11_ExpressPathBraced ==
  \A c \in calls : \A i \in 1..Len(c.content) :
    LET st == c.content[i]
    IN (st.form = "call" /\ st.recv = App /\ st.verb \in Range(httpMethods)
          /\ ColonSegmentNames(st.path) # << >>)
         => \E k \in 1..Len(c.result) : YieldedByExpressRoute(c.result[k], st)

\* The API path of a file under pages/api: the segments after pages/api
\* without the extension, each '[seg]' written '{seg}'.
NextJsRoutePath(filename) ==
  LET segments == Split(SubSeq(filename, 1, Len(filename) - Len(extname(filename))), "/")
      at == Min({ i \in 1..(Len(segments) - 1) :
                    segments[i] = Pages /\ segments[i + 1] = Api })
      below == SubSeq(segments, at + 2, Len(segments))
  IN << "/" >> \o Api \o << "/" >>
       \o Join([i \in 1..Len(below) |->
                  IF below[i][1] = "[" /\ Last(below[i]) = "]"
                    THEN << "{" >> \o SubSeq(below[i], 2, Len(below[i]) - 1)
                           \o << "}" >>
                    ELSE below[i]],
               << "/" >>)

\* The methods the content compares against req.method, in order of
\* appearance and in upper case.
ComparedMethods(content) ==
  LET checks == SelectSeq(content, LAMBDA st : st.form = "check")
  IN [i \in 1..Len(checks) |-> ToUpperCase(checks[i].verb)]

\* The (method, path) pairs of the endpoints of a list that come from the
\* Next.js pattern, in order.
NextJsPairs(list) ==
  LET found == SelectSeq(list, LAMBDA e :
                 e.description.prefix = "Next.js API route from ")
  IN [i \in 1..Len(found) |-> << found[i].method, found[i].path >>]

\* C12 (as claimed): the rest-api extraction of a file under pages/api with
\* one handler returns, through the Next.js pattern, one endpoint per method
\* the content compares against req.method, in order of appearance, at the
\* path derived from the file path; GET and POST when the content has no
\* comparison.
C12_NextJsComparedMethods ==
  \A c \in calls :
    (/\ c.analyzer = "rest-api"
     /\ StartsWith(c.filename, Pages \o << "/" >> \o Api \o << "/" >>)
     /\ Len(SelectSeq(c.content, LAMBDA st : st.form = "handler")) = 1)
      => LET compared == ComparedMethods(c.content)
             expected == IF compared = << >> THEN << GET, POST >> ELSE compared
         IN NextJsPairs(c.result) =
              [i \in 1..Len(expected) |->
                 << expected[i], NextJsRoutePath(c.filename) >>]

\* ------------------------------------------------------------------------
\* Analysis of a project of one source file
\* ------------------------------------------------------------------------

PathUIdId == PathUId \o << "/", ":", "i", "d" >>

PathP == << "/", "p" >>

\* The statements a JavaScript file is written from, in textual order:
\* Express routes (one with a parameter name written twice), a Hapi route
\* whose method is '*', a NestJS decorator, a Next.js handler, a comparison
\* of req.method with 'PUT', a read of req.query.q, and the Express route
\* app.post('/get').
JsStatements ==
  << Statement("call", App, httpMethods[1], PathUId),
     Statement("call", App, httpMethods[1], PathUIdId),
     Statement("call", App, httpMethods[2], << "/" >> \o httpMethods[1]),
     Statement("hapi", Server, << "*" >>, PathU),
     Statement("decorator", << >>, Capitalize(GET), PathU),
     Statement("handler", << >>, << >>, << >>),
     Statement("check", << >>, PUT, << >>),
     Statement("query", << "." >>, << "." >>, << "q" >>) >>

\* r'^users/(?P<id>\d+)/$'
UsersPattern ==
  << "^", "u", "s", "e", "r", "s", "/", "(", "?", "P", "<", "i", "d", ">",
     "\\", "d", "+", ")", "/", "$" >>

\* The statements a Python file is written from, in textual order: Flask
\* routes with methods=['GET', 'post'], without methods and with
\* methods=['GET',]; Django routes r'^users/(?P<id>\d+)/$' and 'users/';
\* the classes OrderViewSet and ReviewViewSet; a FastAPI route.
PyStatements ==
  << Statement("flask",
               << "'", "G", "E", "T", "'", ",", " ", "'", "p", "o", "s", "t", "'" >>,
               << >>, PathP),
     Statement("flask", << >>, << >>, PathP),
     Statement("flask", << "'", "G", "E", "T", "'", "," >>, << >>, PathP),
     Statement("django", << >>, << >>, UsersPattern),
     Statement("django", << >>, << >>, SubSeq(UsersPattern, 2, 7)),
     Statement("class", << >>, << "O", "r", "d", "e", "r" >> \o ViewSet, << >>),
     Statement("class", << >>, << "R", "e", "v", "i", "e", "w" >> \o ViewSet,
               << >>),
     Statement("fastapi", << >>, httpMethods[2], << "/", "f" >>) >>

\* Largest number of statements of the file.
MaxStatements == 2

\* The statements of pool at the positions of S, in textual order.
StatementsAt(pool, S) ==
  LET at == SelectSeq([i \in 1..Len(pool) |-> i], LAMBDA i : i \in S)
  IN [k \in 1..Len(at) |-> pool[at[k]]]

Contents(pool) ==
  { StatementsAt(pool, S) :
      S \in { T \in SUBSET (1..Len(pool)) : Cardinality(T) <= MaxStatements } }

\* The projects of one file: routes/server.js, pages/api/u/[id].js,
\* views.py or app.py.
SourceFiles ==
  { [name |-> n, content |-> c] :
      n \in { RelativePath(<< Routes >>, Server, Js),
              RelativePath(<< Pages, Api, << "u" >> >>,
                           << "[", "i", "d", "]" >>, Js) },
      c \in Contents(JsStatements) }
  \cup
  { [name |-> n, content |-> c] :
      n \in { RelativePath(<< >>, Views, Py), RelativePath(<< >>, App, Py) },
      c \in Contents(PyStatements) }

ExtractInit ==
  /\ GeneratorIdle
  /\ AuxIdle
  /\ \E f \in SourceFiles : project = << f >>
  /\ specFile = [name |-> << >>, text |-> << >>]
  /\ pathExists = TRUE
  /\ packageJson = FALSE
  /\ requested = "none"
  /\ mode = "none"
  /\ again = FALSE
  /\ apc = "idle"
  /\ scan = << >>
  /\ fileIdx = 1
  /\ acc = << >>
  /\ fileEndpoints = << >>
  /\ result = << >>
  /\ aerror = "none"
  /\ calls = { }
  /\ returned = NoResults

SpecExtract == ExtractInit /\ [][AnaNext]_vars

\* ------------------------------------------------------------------------
\* Properties of the extraction from Python files
\* ------------------------------------------------------------------------

\* The extractions of the rest-api analyzer from Python files.
PythonCalls == { c \in calls : extname(c.filename) = << "." >> \o Py }

\* C13 (as claimed): every Django path()/url()/re_path() match yields an
\* endpoint with method GET whose path starts with '/', has every named
\* group (?P<name>...) replaced by {name} and contains neither '^' nor '$';
\* r'^users/(?P<id>\d+)/$' yields '/users/{id}/'.
C13_DjangoPathNormalized ==
  \A c \in PythonCalls : \A i \in 1..Len(c.content) :
    LET st == c.content[i]
    IN st.form = "django"
         => \E k \in 1..Len(c.result) :
              LET e == c.result[k]
              IN /\ e.description.prefix = "Django endpoint from "
                 /\ e.method = GET
                 /\ e.path # << >> /\ e.path[1] = "/"
                 /\ ~ Includes(e.path, << "(", "?", "P", "<" >>)
                 /\ \A j \in 1..Len(e.path) : e.path[j] \notin { "^", "$" }
                 /\ st.path = UsersPattern
                      => e.path = << "/", "u", "s", "e", "r", "s", "/", "{",
                                     "i", "d", "}", "/" >>

\* The strings a Python list text writes between quotes, in order.
RECURSIVE QuotedStrings(_)
QuotedStrings(text) ==
  LET quotes == { i \in 1..Len(text) : text[i] = "'" }
  IN IF Cardinality(quotes) < 2 THEN << >>
     ELSE LET open == Min(quotes)
              close == Min(quotes \ { open })
          IN << SubSeq(text, open + 1, close - 1) >>
               \o QuotedStrings(SubSeq(text, close + 1, Len(text)))

\* The (method, path) pairs of the Flask endpoints of a list, in order.
FlaskPairs(list) ==
  LET flask == SelectSeq(list, LAMBDA e :
                 e.description.prefix = "Flask endpoint from ")
  IN [i \in 1..Len(flask) |-> << flask[i].method, flask[i].path >>]

\* The pairs the Flask matches of a content are claimed to yield.
ListedFlaskPairs(content) ==
  Concat([i \in 1..Len(content) |->
    IF content[i].form # "flask" THEN << >>
    ELSE LET listed == QuotedStrings(content[i].recv)
         IN IF content[i].recv = << >> THEN << << GET, content[i].path >> >>
            ELSE [j \in 1..Len(listed) |->
                    << ToUpperCase(listed[j]), content[i].path >>]])

\* C14 (as claimed): a Flask @app.route(path, methods=[m1, ..., mk]) match
\* yields exactly k endpoints, one per listed method in list order and in
\* upper case, all with that path; a match without a methods argument
\* yields exactly one endpoint, with method GET.
C14_FlaskOnePerListedMethod ==
  \A c \in PythonCalls : FlaskPairs(c.result) = ListedFlaskPairs(c.content)

\* The endpoints of a list that the class viewName has been expanded to.
DrfEndpoints(list, viewName) ==
  SelectSeq(list, LAMBDA e :
    /\ e.description.prefix = "DRF "
    /\ StartsWith(e.description.text, viewName \o << " ", "-", " " >>))

\* The claimed expansion of a class named <Base>ViewSet: method, path and
\* the names of the required path parameters.
ClaimedCrud(viewName) ==
  LET base == << "/" >>
                \o ToLowerCase(SubSeq(viewName, 1, Len(viewName) - Len(ViewSet)))
                \o << "/" >>
      item == base \o << "{", "i", "d", "}", "/" >>
  IN << << GET, base, << >> >>, << POST, base, << >> >>,
        << GET, item, << << "i", "d" >> >> >>,
        << PUT, item, << << "i", "d" >> >> >>,
        << PATCH, item, << << "i", "d" >> >> >>,
        << DELETE, item, << << "i", "d" >> >> >> >>

\* C15 (as claimed): each Python class whose name ends in ViewSet expands
\* to exactly six endpoints, in order GET and POST at /<base>/, then GET,
\* PUT, PATCH and DELETE at /<base>/{id}/, <base> the lower-cased class name
\* without the ViewSet suffix; the four item endpoints carry one required
\* path parameter id each.
C15_ViewSetSixEndpoints ==
  \A c \in PythonCalls : \A i \in 1..Len(c.content) :
    LET st == c.content[i]
    IN (st.form = "class" /\ EndsWith(st.verb, ViewSet))
         => LET found == DrfEndpoints(c.result, st.verb)
            IN [k \in 1..Len(found) |->
                  << found[k].method, found[k].path,
                     [p \in 1..Len(found[k].parameters) |->
                        found[k].parameters[p].name] >>]
                 = ClaimedCrud(st.verb)
               /\ \A k \in 1..Len(found) :
                    \A p \in 1..Len(found[k].parameters) :
                      /\ found[k].parameters[p].in = "path"
                      /\ found[k].parameters[p].required

\* ------------------------------------------------------------------------
\* Properties of the endpoints analyze returns
\* ------------------------------------------------------------------------

\* The endpoints of the lists analyze has returned.
ReturnedEndpoints ==
  UNION { Range(list) : list \in UNION { returned[m] : m \in Modes } }

\* C16 (as claimed): every endpoint of every list analyze returns has a
\* method that is one of GET, POST, PUT, PATCH, DELETE, OPTIONS, HEAD,
\* whatever the scanned text contains.
C16_MethodCanonical ==
  \A e \in ReturnedEndpoints :
    e.method \in { GET, POST, PUT, PATCH, DELETE, OPTIONS, HEAD }

\* The names of the {name} tokens of a path, from left to right.
RECURSIVE BraceTokens(_)
BraceTokens(path) ==
  LET opens == { i \in 1..Len(path) : path[i] = "{" }
      open == IF opens = { } THEN 0 ELSE Min(opens)
      closes == { i \in (open + 1)..Len(path) : path[i] = "}" }
  IN IF opens = { } \/ closes = { } THEN << >>
     ELSE << SubSeq(path, open + 1, Min(closes) - 1) >>
            \o BraceTokens(SubSeq(path, Min(closes) + 1, Len(path)))

\* The endpoints the per-file extractions of both scanners have produced.
ExtractedEndpoints == UNION { Range(c.result) : c \in calls }

\* C17 (as claimed): for every endpoint of the nodejs and rest-api
\* extractors the in-path parameters are exactly the {name} tokens of its
\* own path, in left-to-right order, each required and of type 'string'.
C17_PathParametersAreTokens ==
  \A e \in ExtractedEndpoints :
    LET inPath == SelectSeq(e.parameters, LAMBDA p : p.in = "path")
    IN /\ [i \in 1..Len(inPath) |-> inPath[i].name] = BraceTokens(e.path)
       /\ \A i \in 1..Len(inPath) :
            inPath[i].required /\ inPath[i].type = "string"

\* C18 (as claimed): in the parameters list of every endpoint analyze
\* returns no two parameters have the same name.
C18_ParameterNamesUnique ==
  \A e \in ReturnedEndpoints :
    \A i, j \in 1..Len(e.parameters) :
      e.parameters[i].name = e.parameters[j].name => i = j

\* The keys a content reads as req.query.K, in first-seen order.
RECURSIVE Distinct(_)
Distinct(s) ==
  IF s = << >> THEN << >>
  ELSE LET front == Distinct(SubSeq(s, 1, Len(s) - 1))
       IN IF Last(s) \in Range(front) THEN front ELSE Append(front, Last(s))

DereferencedKeys(content) ==
  LET reads == SelectSeq(content, LAMBDA st :
                 st.form = "query" /\ st.recv = << "." >> /\ st.verb = << "." >>)
  IN Distinct([i \in 1..Len(reads) |-> reads[i].path])

\* C19 (as claimed): in nodejs mode every distinct key K the text reads as
\* req.query.K within 500 characters of the route match becomes one
\* parameter {name: K, in: 'query', required: false, type: 'string'} after
\* the path parameters, in first-seen order, unless a parameter of that
\* name is already in the list.
C19_QueryKeysBecomeParameters ==
  \A c \in calls :
    c.analyzer = "nodejs"
      => \A e \in Range(c.result) :
           LET inPath == SelectSeq(e.parameters, LAMBDA p : p.in = "path")
               taken == { inPath[i].name : i \in 1..Len(inPath) }
               keys == SelectSeq(DereferencedKeys(c.content),
                                 LAMBDA k : k \notin taken)
           IN e.parameters
                = inPath \o [i \in 1..Len(keys) |->
                               [ name |-> keys[i], type |-> "string",
                                 required |-> FALSE, in |-> "query" ]]

\* ------------------------------------------------------------------------
\* Properties of project-type detection
\* ------------------------------------------------------------------------

\* The file lies outside the node_modules directory of the project root.
OutsideNodeModules(name) == Split(name, "/")[1] # NodeModules

\* A swagger/openapi .json/.yaml/.yml file exists outside node_modules.
SpecFileExists ==
  specFile.name # << >> /\ OutsideNodeModules(specFile.name)

\* A source file exists under an api, routes or controllers directory.
ApiDirectoryFileExists ==
  \E i \in 1..Len(project) :
    /\ OutsideNodeModules(project[i].name)
    /\ Range(DirNames(project[i].name)) \cap { Api, Routes, Controllers } # { }

\* A .js or .ts file exists.
CodeFileExists ==
  \E i \in 1..Len(project) :
    /\ OutsideNodeModules(project[i].name)
    /\ extname(project[i].name) \in { << "." >> \o Js, << "." >> \o Ts }

SupportedTypes == { "auto", "openapi", "nodejs", "rest-api" }

\* What a step that enters analyze does on an input error.
RejectsInputErrors ==
  apc \in { "idle", "done" }
    => /\ (~ pathExists \/ requested' \notin SupportedTypes)
            => /\ apc' = "rejected"
               /\ aerror' = (IF ~ pathExists
                               THEN "Project path does not exist"
                               ELSE "Unsupported project type")
               /\ UNCHANGED << mode, scan, calls, result, returned, files,
                               dirs, fsOps >>
       /\ (pathExists /\ requested' = "openapi" /\ ~ SpecFileExists)
            => /\ apc' = "rejected"
               /\ aerror' = "No OpenAPI/Swagger files found"
               /\ UNCHANGED << calls, result, returned, files, dirs, fsOps >>

\* C21: an analyze call rejects, with no analyzer invoked and nothing
\* written, when projectPath does not exist (checked first) or when the
\* requested type is none of auto, openapi, nodejs, rest-api; an openapi
\* call on a project without a spec file rejects too and returns nothing.
C21_InputErrorsReject == [][RejectsInputErrors]_vars

\* A call with an unsupported type has rejected after an earlier rest-api
\* call had returned endpoints.
C21_Witness ==
  /\ requested = "graphql"
  /\ apc = "rejected"
  /\ aerror = "Unsupported project type"
  /\ mode = "rest-api"
  /\ result # << >>

\* C22 (as claimed): a source file whose read fails during a nodejs or
\* rest-api scan is skipped; the read failure of one file never makes the
\* analysis fail.
C22_UnreadableFileSkipped ==
  mode \in { "nodejs", "rest-api" }
    => ~ (apc = "rejected" /\ aerror = "readFile")

\* ------------------------------------------------------------------------
\* The generated server (builtin template 'server.ts')
\* ------------------------------------------------------------------------

PathUBraceId == PathU \o << "/", "{", "i", "d", "}" >>

\* The endpoints a server is rendered from: GET /u with the query parameter
\* q, POST /u, PUT /u/{id} and DELETE /u/{id}.  Their tool names and
\* handler names are pairwise distinct.
ServerPool ==
  { [method |-> GET, path |-> PathU, query |-> { << "q" >> }],
    [method |-> POST, path |-> PathU, query |-> { }],
    [method |-> PUT, path |-> PathUBraceId, query |-> { }],
    [method |-> DELETE, path |-> PathUBraceId, query |-> { }] }

ServedLists ==
  { eps \in UNION { [1..n -> ServerPool] : n \in 0..MaxEndpoints } :
      UniquePairs(eps) }

\* request.params.arguments: each of body, id and q is absent or a
\* non-empty string.
ArgumentKeys == { << "b", "o", "d", "y" >>, << "i", "d" >>, << "q" >> }

ArgumentSets == [ArgumentKeys -> { << >>, << << "v" >> >> }]

\* request.params.name: the tool names of the pool and a name of no tool.
RequestNames ==
  { toolName(e.method, e.path) : e \in ServerPool }
    \cup { << "n", "o", "p", "e" >> }

\* this.baseUrl
BaseUrl == << "h", ":" >>

\* url.replace(/\{([^}]+)\}/g, (match, key) => args[key] || match)
RECURSIVE ReplaceArguments(_, _)
ReplaceArguments(url, args) ==
  IF url = << >> THEN << >>
  ELSE LET closes == { i \in 3..Len(url) : url[i] = "}" }
           close == IF closes = { } THEN 0 ELSE Min(closes)
       IN IF Head(url) = "{" /\ closes # { }
            THEN LET key == SubSeq(url, 2, close - 1)
                     value == IF key \in DOMAIN args /\ args[key] # << >>
                                THEN args[key][1]
                                ELSE SubSeq(url, 1, close)
                 IN value \o ReplaceArguments(SubSeq(url, close + 1, Len(url)),
                                              args)
            ELSE << Head(url) >> \o ReplaceArguments(Tail(url), args)

\* The config the handler of endpoint e builds: data is written only under
\* {{#if (eq method 'POST')}}, params holds the query parameters that args
\* gives a value.
HandlerConfig(e, args) ==
  [ method |-> e.method,
    url |-> ReplaceArguments(BaseUrl \o e.path, args),
    data |-> IF e.method = POST
               THEN << OrElse(IF args[<< "b", "o", "d", "y" >>] = << >>
                                THEN << >>
                                ELSE args[<< "b", "o", "d", "y" >>][1],
                              << "{", "}" >>) >>
               ELSE << >>,
    params |-> { << k, args[k][1] >> :
                   k \in { q \in e.query : q \in DOMAIN args /\ args[q] # << >> } } ]

\* new McpError(code, message)
McpError(code) == [kind |-> "error", code |-> code]

\* catch (error) { throw new McpError(ErrorCode.InternalError, ...) }
Caught(thrown) == McpError("InternalError")

\* The CallToolRequestSchema handler up to the await of axios: the switch
\* over the tool names, whose default case throws inside the try block.
CallTool ==
  /\ spc = "idle"
  /\ \E name \in RequestNames, args \in ArgumentSets :
       LET cases == { i \in 1..Len(served) :
                        toolName(served[i].method, served[i].path) = name }
       IN /\ request' = [name |-> name, arguments |-> args]
          /\ IF cases = { }
               THEN /\ reply' = Caught(McpError("MethodNotFound"))
                    /\ UNCHANGED << spc, http >>
               ELSE /\ http' = HandlerConfig(served[Min(cases)], args)
                    /\ reply' = NoReply
                    /\ spc' = "awaiting"
  /\ UNCHANGED << served, genVars, anaVars, nameVars, tmVars >>

\* await axios(config) settles: the handler returns the response data, or
\* the rejection is caught by the catch block of the request handler.
AxiosSettles ==
  /\ spc = "awaiting"
  /\ \E ok \in BOOLEAN :
       reply' = IF ok THEN [kind |-> "result", code |-> "none"]
                ELSE Caught(McpError("AxiosError"))
  /\ spc' = "idle"
  /\ UNCHANGED << served, request, http, genVars, anaVars, nameVars, tmVars >>

ServerInit ==
  /\ GeneratorIdle
  /\ AnalyzerIdle
  /\ NamesIdle
  /\ ManagerIdle
  /\ served \in ServedLists
  /\ spc = "idle"
  /\ request = NoRequest
  /\ reply = NoReply
  /\ http = NoHttp

ServerNext == CallTool \/ AxiosSettles

SpecServer == ServerInit /\ [][ServerNext]_vars

\* ------------------------------------------------------------------------
\* Properties of the generated server
\* ------------------------------------------------------------------------

\* The served endpoint a request names, if any.
NamedEndpoints ==
  { i \in 1..Len(served) :
      toolName(served[i].method, served[i].path) = request.name }

\* C23 (as claimed): a call-tool request whose name matches no endpoint's
\* toolName is answered with an error of code MethodNotFound, never with
\* another error code.
C23_UnknownToolMethodNotFound ==
  (request # NoRequest /\ NamedEndpoints = { } /\ spc = "idle")
    => reply = McpError("MethodNotFound")

\* C24 (as claimed): the handler of an endpoint whose method is not GET
\* sends args.body as the body of the HTTP request; the handler of a GET
\* endpoint sends no body.
C24_BodySentUnlessGet ==
  spc = "awaiting"
    => LET e == served[Min(NamedEndpoints)]
           body == request.arguments[<< "b", "o", "d", "y" >>]
       IN IF e.method = GET THEN http.data = << >>
          ELSE body # << >> => http.data = body

\* C25 (as claimed): an openapi analysis, requested or detected by 'auto',
\* of a project whose spec file is in YAML format succeeds as it does for a
\* .json spec file.
C25_YamlSpecAnalysed ==
  (/\ requested \in { "openapi", "auto" }
   /\ SpecFileExists
   /\ ToLowerCase(extname(specFile.name))
        \in { << "." >> \o Yaml, << ".", "y", "m", "l" >> })
    => apc = "done" /\ mode = "openapi"

\* ------------------------------------------------------------------------
\* Derivation of the names of one endpoint
\* ------------------------------------------------------------------------

\* The segments a path is written from: a literal, a braced and a colon
\* parameter, a segment of one blank, a literal followed by a blank and a
\* mixed-case literal.
SegmentPool ==
  { << "a" >>, << "{", "i", "d", "}" >>, << ":", "i", "d" >>, << " " >>,
    << "b", " " >>, << "A", "b" >> }

\* Largest number of segments of a path.
MaxSegments == 2

\* '/' followed by the segments joined with '/': '/' for no segment.
PathsOfSegments ==
  { << "/" >> \o Join(segments, << "/" >>) :
      segments \in UNION { [1..n -> SegmentPool] : n \in 0..MaxSegments } }

MethodSpellings == { GET, ToLowerCase(GET), POST }

\* The three derivations the generator and its templates make for one
\* endpoint: the file stem of MCPGenerator, the export name and import path
\* of the templates, and the tool name.
Derive ==
  /\ derived = << >>
  /\ derived' = << [ stem |-> generateToolName([method |-> nMethod,
                                               path |-> nPath]),
                     fileSafeName |-> safeFileName(nMethod, nPath),
                     toolName |-> toolName(nMethod, nPath) ] >>
  /\ UNCHANGED << nMethod, nPath, genVars, anaVars, srvVars, tmVars >>

NamesInit ==
  /\ GeneratorIdle
  /\ AnalyzerIdle
  /\ ServerIdle
  /\ ManagerIdle
  /\ nMethod \in MethodSpellings
  /\ nPath \in PathsOfSegments
  /\ derived = << >>

SpecNames == NamesInit /\ [][Derive]_vars

\* ------------------------------------------------------------------------
\* Properties of the derived names
\* ------------------------------------------------------------------------

\* C26 (as claimed): for every endpoint the stem under which MCPGenerator
\* writes src/tools/<stem>.ts and tests/tools/<stem>.test.ts equals the
\* identifier the templates emit as export name and import path.
C26_StemIsFileSafeName ==
  derived # << >> => derived[1].stem = derived[1].fileSafeName

\* C28 (as claimed): for the path '/' the toolName is exactly the
\* lower-cased method, with no separator character, and so is the
\* fileSafeName; for every non-empty method and every path neither name is
\* the empty string.
C28_RootPathNames ==
  derived # << >>
    => /\ nPath = << "/" >>
            => /\ derived[1].toolName = ToLowerCase(nMethod)
               /\ derived[1].fileSafeName = ToLowerCase(nMethod)
       /\ derived[1].toolName # << >>
       /\ derived[1].fileSafeName # << >>

\* ------------------------------------------------------------------------
\* Properties of the method of a route call
\* ------------------------------------------------------------------------

\* C27 (as claimed): for a route call app/router/server.<verb>('<path>')
\* and a decorator @<Verb>('<path>'), patterns without a capture group for
\* the method, the endpoint's method is the verb of the call, whatever
\* characters the path literal holds.
C27_MethodIsVerb ==
  \A c \in calls : \A i \in 1..Len(c.content) :
    LET st == c.content[i]
    IN (/\ c.analyzer = "rest-api"
        /\ \/ st.form = "call" /\ JavaScriptPattern(0, st)
           \/ st.form = "decorator" /\ JavaScriptPattern(1, st))
         => \E k \in 1..Len(c.result) :
              /\ c.result[k].description.prefix = "Endpoint from "
              /\ c.result[k].path = st.path
              /\ c.result[k].method = ToUpperCase(st.verb)

(***************************************************************************)
(* Properties of the Next.js pattern                                       *)
(***************************************************************************)

\* The directory prefixes pages/api/ and src/pages/api/ of a Next.js route.
NextJsDirectories ==
  { Pages \o << "/" >> \o Api \o << "/" >>,
    << "s", "r", "c", "/" >> \o Pages \o << "/" >> \o Api \o << "/" >> }

UnderPagesApi(filename) ==
  \E d \in NextJsDirectories : StartsWith(filename, d)

\* C30 (as claimed): the rest-api extraction of a JavaScript file that is
\* not located under pages/api or src/pages/api returns no endpoint whose
\* description is that of the Next.js pattern, whatever the file exports.
C30_NextJsOnlyUnderPagesApi ==
  \A c \in calls : \A k \in 1..Len(c.result) :
    (/\ c.analyzer = "rest-api"
     /\ c.result[k].description.prefix = "Next.js API route from ")
      => UnderPagesApi(c.filename)

\* The same statement for the files under pages/api only: every endpoint of
\* the Next.js pattern has a path under /api that is not the placeholder.
C30_UnderPagesApiPart ==
  \A c \in calls : \A k \in 1..Len(c.result) :
    (/\ c.analyzer = "rest-api"
     /\ c.result[k].description.prefix = "Next.js API route from "
     /\ UnderPagesApi(c.filename))
      => c.result[k].path = inferNextJsApiPath(c.filename)

(***************************************************************************)
(* TemplateManager.getTemplate under overlapping calls                     *)
(***************************************************************************)

\* Largest number of getTemplate calls of a schedule.
MaxCalls == 3

\* The number of Handlebars.compile calls made for name n.
Compiles(n) == Len(SelectSeq(compiled, LAMBDA m : m = n))

\* The caller p's call resolves with template t.
ReturnTemplate(p, t) ==
  LET n == caller[p].name
  IN /\ caller' = [caller EXCEPT ![p].pc = "returned", ![p].got = t]
     /\ firstOk' = IF firstOk[n] = 0 THEN [firstOk EXCEPT ![n] = t]
                                     ELSE firstOk

\* Handlebars.compile(templateContent); this.templates.set(name, template);
\* return template. Every compile call returns a new function: the
\* template is identified by the position of its compile call.
CompileAndSet(p) ==
  LET n == caller[p].name
      template == Len(compiled) + 1
  IN /\ compiled' = Append(compiled, n)
     /\ cached' = [cached EXCEPT ![n] = template]
     /\ templates' = templates \cup { n }
     /\ ReturnTemplate(p, template)

\* The call rejects: nothing after the throwing statement runs.
RejectCall(p) ==
  /\ caller' = [caller EXCEPT ![p].pc = "rejected"]
  /\ UNCHANGED << cached, compiled, firstOk, templates >>

TmFrame ==
  UNCHANGED << endpoints, config, dryRun, pc, idx, dirs, files, log, fsOps,
               error, atStart, prev, anaVars, srvVars, nameVars, overrides >>

\* Caller p calls getTemplate(n): the statements up to the first await. On
\* a cache hit the stored template is returned; on a miss the call awaits
\* fs.pathExists(templatePath).
GetTemplate(p, n) ==
  /\ caller[p].pc \in { "idle", "returned", "rejected" }
  /\ issued < MaxCalls
  /\ issued' = issued + 1
  /\ IF cached[n] # 0
       THEN /\ caller' = [caller EXCEPT ![p] =
                            [pc |-> "returned", name |-> n,
                             late |-> firstOk[n] # 0, consulted |-> FALSE,
                             got |-> cached[n]]]
            /\ firstOk' = IF firstOk[n] = 0 THEN [firstOk EXCEPT ![n] = cached[n]]
                                            ELSE firstOk
       ELSE /\ caller' = [caller EXCEPT ![p] =
                            [pc |-> "pathExists", name |-> n,
                             late |-> firstOk[n] # 0, consulted |-> TRUE,
                             got |-> 0]]
            /\ UNCHANGED firstOk
  /\ UNCHANGED << cached, compiled, templates >>
  /\ TmFrame

\* await fs.pathExists settles for caller p: with the override file the
\* call awaits fs.readFile; without it getBuiltinTemplate is consulted,
\* which throws for a name that is no key of the registry, and the content
\* is compiled and stored.
PathExistsSettles(p) ==
  /\ caller[p].pc = "pathExists"
  /\ IF overrides[caller[p].name] # "absent"
       THEN /\ caller' = [caller EXCEPT ![p].pc = "readFile"]
            /\ UNCHANGED << cached, compiled, firstOk, templates >>
       ELSE IF caller[p].name \notin BuiltinTemplates
              THEN RejectCall(p)
              ELSE CompileAndSet(p)
  /\ UNCHANGED issued
  /\ TmFrame

\* await fs.readFile settles for caller p: the content is compiled and
\* stored, or the rejection of readFile rejects the call.
ReadFileSettles(p) ==
  /\ caller[p].pc = "readFile"
  /\ IF overrides[caller[p].name] = "unreadable"
       THEN RejectCall(p)
       ELSE CompileAndSet(p)
  /\ UNCHANGED issued
  /\ TmFrame

CallGetTemplate == \E p \in Callers, n \in TemplateNames : GetTemplate(p, n)

PathExistsResolves == \E p \in Callers : PathExistsSettles(p)

ReadFileResolves == \E p \in Callers : ReadFileSettles(p)

ManagerInit ==
  /\ GeneratorIdle
  /\ AnalyzerIdle
  /\ ServerIdle
  /\ NamesIdle
  /\ overrides \in [TemplateNames -> { "absent", "present", "unreadable" }]
  /\ caller = [p \in Callers |-> NoCall]
  /\ cached = [n \in TemplateNames |-> 0]
  /\ compiled = << >>
  /\ firstOk = [n \in TemplateNames |-> 0]
  /\ issued = 0

ManagerNext == CallGetTemplate \/ PathExistsResolves \/ ReadFileResolves

SpecManager == ManagerInit /\ [][ManagerNext]_vars

\* C29 (as claimed): in every schedule of getTemplate calls each name is
\* compiled at most once; a call made after a call for the same name has
\* returned gets the template that call got, without consulting the override
\* file or the built-in registry; and a call that rejects leaves the cache
\* as it was.
CompiledOnce ==
  /\ \A n \in TemplateNames : Compiles(n)' <= 1
  /\ \A p \in Callers :
       (caller'[p].pc = "returned" /\ caller'[p].late)
         => /\ caller'[p].got = firstOk'[caller'[p].name]
            /\ ~ caller'[p].consulted
  /\ \A p \in Callers :
       (caller[p].pc # "rejected" /\ caller'[p].pc = "rejected")
         => cached' = cached

C29_CompiledAtMostOnce == [][CompiledOnce]_vars

\* The part on failed calls: a call that rejects leaves the cache as it
\* was, and the cache holds only names that were compiled.
FailedCallAddsNothing ==
  /\ \A p \in Callers :
       (caller[p].pc # "rejected" /\ caller'[p].pc = "rejected")
         => cached' = cached /\ templates' = templates
  /\ \A n \in TemplateNames : cached'[n] # 0 => Compiles(n)' >= 1

C29_FailedPart == [][FailedCallAddsNothing]_vars

\* Two calls for one name have overlapped at their await points and both
\* have compiled it.
C29_Overlap ==
  \E n \in TemplateNames :
    /\ Compiles(n) = 2
    /\ \A p \in Callers : caller[p].pc = "returned" /\ caller[p].name = n

====
